---- MODULE Spec2Model ----
(***************************************************************************)
(* fastapi-filter: the schema/validation model (BaseFilterModel), the      *)
(* prefixed filter composer (with_prefix), the wire adapter (FilterDepends)*)
(* and the SQLAlchemy string-list coercion (Filter.split_str).             *)
(*                                                                         *)
(* Representation.                                                         *)
(*  - A Python str is a sequence of one-character strings.                 *)
(*  - A field name or keyword is the sequence of its segments between      *)
(*    "__" separators: city__in is <<"city", "in">>.                       *)
(*  - A Python value is a record [t, s, l]: None, a str (s) or a list of   *)
(*    str (l); a bool, a filter instance and a dict carry their own field. *)
(*  - A filter class is a record of its pydantic configuration, its        *)
(*    model_fields, its before-validators and its Constants.               *)
(***************************************************************************)
EXTENDS Integers, Sequences, FiniteSets, TLC

VARIABLES op, Filter, by_alias, kwargs, result, backend, given_query

vars == <<op, Filter, by_alias, kwargs, result, backend, given_query>>

---------------------------------------------------------------------------
(* Bounds of the explored inputs. *)

\* longest ordering token list handed to a constructor
MaxTokens == 4
\* most keywords in one constructor or wrapper call
MaxKeys == 2
\* longest token sequence joined and split again
MaxSplitTokens == 3
\* longest ordering token list of a sorted filter
MaxSortTokens == 2
\* longest value handed to the like and ilike operators
MaxLikeLen == 2
\* deepest chain of nested filters handed to the Beanie compiler
MaxDepth == 2
\* most with_prefix calls on one class
MaxCalls == 2

---------------------------------------------------------------------------
(* Python str operations. *)

\* code points order the characters, as Python compares str values
CharCode == (" " :> 32) @@ ("+" :> 43) @@ ("," :> 44) @@ ("-" :> 45) @@
            ("a" :> 97) @@ ("b" :> 98)

\* str.replace(c, ""): every occurrence of the character is removed
Replace(s, c) == SelectSeq(s, LAMBDA x : x # c)

RECURSIVE LStrip(_)
LStrip(s) == IF s # <<>> /\ s[1] = " " THEN LStrip(Tail(s)) ELSE s

RECURSIVE RStrip(_)
RStrip(s) ==
    IF s # <<>> /\ s[Len(s)] = " " THEN RStrip(SubSeq(s, 1, Len(s) - 1)) ELSE s

\* str.strip()
Strip(s) == RStrip(LStrip(s))

\* str.split(","): the pieces between commas; "" gives [""]
RECURSIVE SplitComma(_)
SplitComma(s) ==
    IF \A i \in 1..Len(s) : s[i] # ","
    THEN <<s>>
    ELSE LET i == CHOOSE k \in 1..Len(s) :
                     s[k] = "," /\ \A j \in 1..(k - 1) : s[j] # ","
         IN <<SubSeq(s, 1, i - 1)>> \o SplitComma(SubSeq(s, i + 1, Len(s)))

\* sep.join(list)
RECURSIVE Join(_, _)
Join(list, sep) ==
    IF list = <<>> THEN <<>>
    ELSE IF Len(list) = 1 THEN list[1]
    ELSE list[1] \o sep \o Join(Tail(list), sep)

\* s < t for two str values
RECURSIVE StrLess(_, _)
StrLess(s, t) ==
    IF s = <<>> THEN t # <<>>
    ELSE IF t = <<>> THEN FALSE
    ELSE IF s[1] = t[1] THEN StrLess(Tail(s), Tail(t))
    ELSE CharCode[s[1]] < CharCode[t[1]]

\* sorted(S) for a set of str values
RECURSIVE sorted(_)
sorted(S) ==
    IF S = {} THEN <<>>
    ELSE LET m == CHOOSE x \in S : \A y \in S \ {x} : StrLess(x, y)
         IN <<m>> \o sorted(S \ {m})

\* every sequence over S of length at most n
SeqsUpTo(S, n) == UNION {[1..k -> S] : k \in 0..n}

---------------------------------------------------------------------------
(* Python values. *)

None == [t |-> "none", s |-> <<>>, l |-> <<>>]
Str(s) == [t |-> "str", s |-> s, l |-> <<>>]
List(l) == [t |-> "list", s |-> <<>>, l |-> l]
\* a list of int, its items written in digits
IntList(l) == [t |-> "list[int]", s |-> <<>>, l |-> l]
Bool(b) == [t |-> "bool", s |-> <<>>, l |-> <<>>, b |-> b]
\* a filter instance held by a field of another filter
Nested(instance) == [t |-> "filter", s |-> <<>>, l |-> <<>>, inst |-> instance]
\* a dict, as a function from its keys
Dict(d) == [t |-> "dict", s |-> <<>>, l |-> <<>>, d |-> d]
\* the Depends(...) object FilterDepends returns, the declared default of a
\* nested filter field
Depends == [t |-> "depends", s |-> <<>>, l |-> <<>>]

\* "not value"
Falsy(v) == v = None \/ v = Str(<<>>) \/ v = List(<<>>)

\* the items a for loop over the value visits
Items(v) == IF v.t = "list" THEN v.l
            ELSE [i \in 1..Len(v.s) |-> <<v.s[i]>>]

\* the outcome of one validator: the value it returns or the error it raises
Return(v) == [raised |-> FALSE, v |-> v, type |-> "", msg |-> "", arg |-> <<>>]
Raise(type, msg, arg) ==
    [raised |-> TRUE, v |-> None, type |-> type, msg |-> msg, arg |-> arg]

---------------------------------------------------------------------------
(* Field names. *)

\* field_name.endswith("__" + suffix)
EndsWith(field_name, suffix) ==
    Len(field_name) >= 2 /\ field_name[Len(field_name)] = suffix

\* key.removeprefix(prefix + "__")
removeprefix(key, prefix) ==
    IF Len(key) >= 2 /\ key[1] = prefix THEN Tail(key) ELSE key

\* the alias_generator of with_prefix: f"{prefix}__{string}"
alias_generator(prefix, string) == <<prefix>> \o string

---------------------------------------------------------------------------
(* The validators of BaseFilterModel and of the SQLAlchemy Filter. *)

\* split_str without the empty-string case
split_str_keep_empty(cls, value, field_name) ==
    IF /\ \/ field_name = cls.Constants.ordering_field_name
          \/ EndsWith(field_name, "in")
          \/ EndsWith(field_name, "not_in")
       /\ value.t = "str"
    THEN List(SplitComma(value.s))
    ELSE value

\* Filter.split_str
split_str(cls, value, field_name) ==
    IF /\ \/ field_name = cls.Constants.ordering_field_name
          \/ EndsWith(field_name, "in")
          \/ EndsWith(field_name, "not_in")
       /\ value.t = "str"
    THEN IF value.s = <<>>
         THEN List(<<>>)
         ELSE List(SplitComma(value.s))
    ELSE value

\* Filter.split_str of the Tortoise compiler
tortoise_split_str(cls, value, field_name) ==
    IF /\ \/ field_name = cls.Constants.ordering_field_name
          \/ EndsWith(field_name, "in")
          \/ EndsWith(field_name, "not_in")
       /\ value.t = "str"
    THEN IF value.s = <<>>
         THEN List(<<>>)
         ELSE List(SplitComma(value.s))
    ELSE value

\* Filter.split_str of the MongoEngine compiler
mongoengine_split_str(cls, value, field_name) ==
    IF /\ \/ field_name = cls.Constants.ordering_field_name
          \/ EndsWith(field_name, "in")
          \/ EndsWith(field_name, "nin")
       /\ value.t = "str"
    THEN IF value.s = <<>>
         THEN List(<<>>)
         ELSE List(SplitComma(value.s))
    ELSE value

\* Filter.split_str of the Beanie compiler
beanie_split_str(cls, value, field_name) ==
    IF /\ \/ field_name = cls.Constants.ordering_field_name
          \/ EndsWith(field_name, "in")
          \/ EndsWith(field_name, "nin")
       /\ value.t = "str"
    THEN IF value.s = <<>>
         THEN List(<<>>)
         ELSE List(SplitComma(value.s))
    ELSE value

\* Filter.split_str of the Elasticsearch compiler
elasticsearch_split_str(cls, value, field_name) ==
    IF /\ \/ field_name = cls.Constants.ordering_field_name
          \/ EndsWith(field_name, "in")
          \/ EndsWith(field_name, "nin")
          \/ EndsWith(field_name, "not_in")
       /\ value.t = "str"
    THEN IF value.s = <<>>
         THEN List(<<>>)
         ELSE List(SplitComma(value.s))
    ELSE value

\* BaseFilterModel.strip_order_by_values
strip_order_by_values(cls, value, field_name) ==
    IF field_name # cls.Constants.ordering_field_name THEN Return(value)
    ELSE IF Falsy(value) THEN Return(None)
    ELSE LET stripped == [i \in 1..Len(Items(value)) |-> Strip(Items(value)[i])]
         IN Return(List(SelectSeq(stripped, LAMBDA x : x # <<>>)))

\* a base name that drops one leading marker only
field_name_of_leading(field_name_with_direction) ==
    IF field_name_with_direction # <<>>
       /\ field_name_with_direction[1] \in {"-", "+"}
    THEN Tail(field_name_with_direction)
    ELSE field_name_with_direction

\* the base name validate_order_by and sort() derive from a token
field_name_of(field_name_with_direction) ==
    Replace(Replace(field_name_with_direction, "-"), "+")

\* usages that record the base name in place of the token
usages_append_name(field_name_usages, field_name, field_name_with_direction) ==
    [n \in DOMAIN field_name_usages \cup {field_name} |->
        IF n = field_name
        THEN Append(IF n \in DOMAIN field_name_usages
                    THEN field_name_usages[n] ELSE <<>>,
                    field_name)
        ELSE field_name_usages[n]]

\* field_name_usages[field_name].append(field_name_with_direction)
usages_append(field_name_usages, field_name, field_name_with_direction) ==
    [n \in DOMAIN field_name_usages \cup {field_name} |->
        IF n = field_name
        THEN Append(IF n \in DOMAIN field_name_usages
                    THEN field_name_usages[n] ELSE <<>>,
                    field_name_with_direction)
        ELSE field_name_usages[n]]

\* the tokens of the duplicated names, name by name in the given order
RECURSIVE ambiguous_tokens(_, _)
ambiguous_tokens(names, field_name_usages) ==
    IF names = <<>> THEN <<>>
    ELSE field_name_usages[names[1]]
             \o ambiguous_tokens(Tail(names), field_name_usages)

\* the loop of validate_order_by from token i on, and what follows the loop
RECURSIVE validate_order_by_from(_, _, _, _, _)
validate_order_by_from(cls, value, i, field_name_usages, duplicated_field_names) ==
    IF i > Len(Items(value))
    THEN IF duplicated_field_names # {}
         THEN Raise("value_error", "ambiguous",
                    Join(ambiguous_tokens(sorted(duplicated_field_names),
                                          field_name_usages),
                         <<",", " ">>))
         ELSE Return(value)
    ELSE LET field_name_with_direction == Items(value)[i]
             field_name == field_name_of(field_name_with_direction)
             usages == usages_append(field_name_usages, field_name,
                                     field_name_with_direction)
         IN IF field_name \notin cls.Constants.model
            THEN Raise("value_error", "not a valid ordering field", field_name)
            ELSE validate_order_by_from(cls, value, i + 1, usages,
                     IF Len(usages[field_name]) > 1
                     THEN duplicated_field_names \cup {field_name}
                     ELSE duplicated_field_names)

\* BaseFilterModel.validate_order_by
validate_order_by(cls, value, field_name) ==
    IF field_name # cls.Constants.ordering_field_name THEN Return(value)
    ELSE IF Falsy(value) THEN Return(None)
    ELSE validate_order_by_from(cls, value, 1, [n \in {} |-> <<>>], {})

\* one registered validator applied to a raw value
call_validator(validator, cls, value, field_name) ==
    CASE validator = "strip_order_by_values" ->
             strip_order_by_values(cls, value, field_name)
      [] validator = "validate_order_by" ->
             validate_order_by(cls, value, field_name)
      [] validator = "split_str" ->
             Return(split_str(cls, value, field_name))
      [] validator = "tortoise.split_str" ->
             Return(tortoise_split_str(cls, value, field_name))
      [] validator = "mongoengine.split_str" ->
             Return(mongoengine_split_str(cls, value, field_name))
      [] validator = "beanie.split_str" ->
             Return(beanie_split_str(cls, value, field_name))
      [] validator = "elasticsearch.split_str" ->
             Return(elasticsearch_split_str(cls, value, field_name))

\* mode="before" validators wrap one another in registration order, so the
\* one registered last runs first; k is the next validator to run
RECURSIVE run_before_validators(_, _, _, _)
run_before_validators(cls, value, field_name, k) ==
    IF k = 0 THEN Return(value)
    ELSE LET r == call_validator(cls.validators[k], cls, value, field_name)
         IN IF r.raised THEN r
            ELSE run_before_validators(cls, r.v, field_name, k - 1)

\* validation of a value against the field's annotation
validate_annotation(info, value) ==
    IF value = None
    THEN IF info.optional THEN Return(None)
         ELSE Raise(CASE info.annotation = "str" -> "string_type"
                      [] info.annotation = "bool" -> "bool_type"
                      [] info.annotation = "filter" -> "model_type"
                      [] OTHER -> "list_type", "", <<>>)
    ELSE IF info.annotation = "str"
    THEN IF value.t = "str" THEN Return(value)
         ELSE Raise("string_type", "", <<>>)
    ELSE IF info.annotation = "bool"
    THEN IF value.t = "bool" THEN Return(value)
         ELSE Raise("bool_type", "", <<>>)
    ELSE IF info.annotation = "filter"
    THEN IF value.t = "filter" THEN Return(value)
         ELSE Raise("model_type", "", <<>>)
    ELSE IF info.annotation = "list[int]"
    THEN IF value.t = "list[int]" THEN Return(value)
         ELSE IF value.t # "list" THEN Raise("list_type", "", <<>>)
         ELSE IF \A i \in 1..Len(value.l) :
                    /\ value.l[i] # <<>>
                    /\ \A j \in 1..Len(value.l[i]) :
                           value.l[i][j] \in {"0", "1", "2", "3", "4", "5",
                                              "6", "7", "8", "9"}
         THEN Return(IntList(value.l))
         ELSE Raise("int_parsing", "", <<>>)
    ELSE IF value.t = "list" THEN Return(value)
         ELSE Raise("list_type", "", <<>>)

\* one supplied field: the before-validators, then the annotation
validate_field(cls, field_name, value) ==
    LET r == run_before_validators(cls, value, field_name, Len(cls.validators))
    IN IF r.raised THEN r
       ELSE validate_annotation(cls.fields[field_name], r.v)

---------------------------------------------------------------------------
(* pydantic: construction of a model instance and model_dump. *)

\* a declared field: annotation "str", "list" (of str), "bool" or "filter" (a
\* nested filter class), Optional or not,
\* required or with a default, and its alias (<<>> when it has none)
FieldInfo(annotation, optional, required, default) ==
    [annotation |-> annotation, optional |-> optional, required |-> required,
     default |-> default, alias |-> <<>>]

\* the keyword under which the constructor looks a field up
lookup_key(cls, field_name) ==
    IF cls.fields[field_name].alias # <<>>
    THEN cls.fields[field_name].alias[1]
    ELSE field_name

\* extras that are never reported
extra_errors_ignored(cls, extra_keys) == {}

\* the errors for keys that belong to no field: one each under
\* extra="forbid", none under pydantic's default
extra_errors(cls, extra_keys) ==
    IF cls.extra = "forbid"
    THEN {[loc |-> k, type |-> "extra_forbidden", msg |-> "", arg |-> <<>>] :
             k \in extra_keys}
    ELSE {}

\* the outcome of the validation of every field: a supplied one is
\* validated, an absent one takes its default or is reported missing
field_outcomes(cls, data) ==
    [f \in DOMAIN cls.fields |->
        IF lookup_key(cls, f) \in DOMAIN data
        THEN validate_field(cls, f, data[lookup_key(cls, f)])
        ELSE IF cls.fields[f].required
             THEN Raise("missing", "", <<>>)
             ELSE Return(cls.fields[f].default)]

\* the errors of the fields whose validation raised
field_errors(cls, outcome) ==
    {[loc |-> lookup_key(cls, f), type |-> outcome[f].type,
      msg |-> outcome[f].msg, arg |-> outcome[f].arg] :
        f \in {g \in DOMAIN cls.fields : outcome[g].raised}}

\* all the errors of a call: those of the fields and those of the keys that
\* belong to no field
validation_errors(cls, data, outcome) ==
    field_errors(cls, outcome) \cup
    extra_errors(cls, DOMAIN data \
                          {lookup_key(cls, f) : f \in DOMAIN cls.fields})

\* the ValidationError that carries all the errors, or the instance
validated(cls, data, outcome, errors) ==
    IF errors # {}
    THEN [ok |-> FALSE, exc |-> "ValidationError", errors |-> errors,
          inst |-> <<>>]
    ELSE [ok |-> TRUE, exc |-> "", errors |-> {},
          inst |-> <<[cls |-> cls,
                      values |-> [f \in DOMAIN cls.fields |-> outcome[f].v],
                      fields_set |-> {f \in DOMAIN cls.fields :
                                        lookup_key(cls, f) \in DOMAIN data}]>>]

\* the instance or the error, given the outcomes of the fields
construct_from(cls, data, outcome) ==
    validated(cls, data, outcome, validation_errors(cls, data, outcome))

\* cls(**data): every supplied field is validated, an absent one takes its
\* default or is reported missing, and keys that belong to no field are
\* reported when the class forbids extras; all errors are raised together
construct(cls, data) == construct_from(cls, data, field_outcomes(cls, data))

\* instance.model_dump(exclude_unset=.., exclude_defaults=.., exclude_none=..,
\* by_alias=..): a dict, as a function from its keys; a nested filter
\* instance is dumped in its turn, with the same arguments
RECURSIVE model_dump(_, _, _, _, _)
model_dump(instance, exclude_unset, exclude_defaults, exclude_none, alias) ==
    LET cls == instance.cls
        kept == {f \in DOMAIN cls.fields :
                    /\ exclude_unset => f \in instance.fields_set
                    /\ exclude_defaults =>
                          \/ cls.fields[f].required
                          \/ instance.values[f] # cls.fields[f].default
                    /\ exclude_none => instance.values[f] # None}
        key(f) == IF alias THEN lookup_key(cls, f) ELSE f
        dumped(v) == IF v.t = "filter"
                     THEN Dict(model_dump(v.inst, exclude_unset,
                                          exclude_defaults, exclude_none, alias))
                     ELSE v
    IN [k \in {key(f) : f \in kept} |->
           dumped(instance.values[CHOOSE f \in kept : key(f) = k])]

\* filtering_fields without exclude_unset
filtering_fields_with_unset(self) ==
    LET fields == model_dump(self, FALSE, FALSE, TRUE, FALSE)
        popped == DOMAIN fields \ {self.cls.Constants.ordering_field_name}
    IN {<<k, fields[k]>> : k \in popped}

\* BaseFilterModel.filtering_fields: the items of the dumped dict
filtering_fields(self) ==
    LET fields == model_dump(self, TRUE, FALSE, TRUE, FALSE)
        popped == DOMAIN fields \ {self.cls.Constants.ordering_field_name}
    IN {<<k, fields[k]>> : k \in popped}

---------------------------------------------------------------------------
(* with_prefix and FilterDepends. *)

\* with_prefix(prefix, Filter): the subclass NestedFilter, whose
\* alias_generator renames every field and whose own Constants records the
\* prefix and the class it was derived from
with_prefix(prefix, Filter_) ==
    [name |-> "NestedFilter",
     extra |-> "forbid",
     validators |-> Filter_.validators,
     fields |-> [f \in DOMAIN Filter_.fields |->
                    [Filter_.fields[f] EXCEPT
                        !.alias = <<alias_generator(prefix, f)>>]],
     order |-> Filter_.order,
     Constants |-> [Filter_.Constants EXCEPT
                        !.prefix = <<prefix>>,
                        !.original_filter = <<Filter_>>]]

\* _list_to_str_fields: a list field becomes a str field whose default is the
\* comma-joined declared default; every other field is copied
_list_to_str_fields(Filter_) ==
    [name \in DOMAIN Filter_.fields |->
        LET f == Filter_.fields[name]
        IN IF f.annotation \in {"list", "list[int]"}
           THEN [f EXCEPT
                   !.annotation = "str",
                   !.optional = ~f.required,
                   !.default = IF ~f.required /\ f.default.t = "list"
                               THEN Str(Join(f.default.l, <<",">>))
                               ELSE f.default]
           ELSE f]

\* create_model(name, **fields): a plain BaseModel subclass, without the
\* filter's configuration and validators
create_model(fields) ==
    [name |-> "ModelMetaclass", extra |-> "ignore", validators |-> <<>>,
     fields |-> fields]

\* {k.removeprefix(prefix): v for k, v in data.items()}
stripped(data, prefix) ==
    [k \in {removeprefix(j, prefix) : j \in DOMAIN data} |->
        data[CHOOSE j \in DOMAIN data : removeprefix(j, prefix) = k]]

\* the filter built from the dumped wire data: the original filter of a
\* prefixed class from the stripped keys, otherwise the class itself
build_filter(Filter_, data) ==
    IF Filter_.Constants.original_filter # <<>>
    THEN construct(Filter_.Constants.original_filter[1],
                   stripped(data, Filter_.Constants.prefix[1]))
    ELSE construct(Filter_, data)

\* except ValidationError as e: raise RequestValidationError(e.errors())
request_validation(outcome) ==
    IF outcome.ok THEN outcome
    ELSE [outcome EXCEPT !.exc = "RequestValidationError"]

\* the body of FilterWrapper.__new__ once GeneratedFilter(**kwargs) is done
wrap(Filter_, alias, generated) ==
    IF ~generated.ok THEN request_validation(generated)
    ELSE request_validation(
             build_filter(Filter_,
                 model_dump(generated.inst[1], TRUE, TRUE, FALSE, alias)))

\* FilterDepends(Filter, by_alias=by_alias): FilterWrapper.__new__(**kwargs)
FilterWrapper(Filter_, alias, kwargs_) ==
    wrap(Filter_, alias,
         construct(create_model(_list_to_str_fields(Filter_)), kwargs_))

\* ",".join(field_info.default) raises a TypeError on an item that is no str
join_raises(default) == default.t = "list[int]" /\ default.l # <<>>

\* FilterDepends(Filter) up to the creation of GeneratedFilter
FilterDepends(Filter_) ==
    IF \E name \in DOMAIN Filter_.fields :
          /\ Filter_.fields[name].annotation \in {"list", "list[int]"}
          /\ join_raises(Filter_.fields[name].default)
    THEN Raise("TypeError", "sequence item 0: expected str instance", <<>>)
    ELSE Return(create_model(_list_to_str_fields(Filter_)))

---------------------------------------------------------------------------
(* The declared classes.  Attribute names and values are abridged to short  *)
(* strings: "a" and "ab" stand for two attributes of the mapped class.      *)

\* the attributes of the mapped classes the filters target
Address == {<<"a">>, <<"b">>}
User == {<<"a">>, <<"a", "b">>}

\* the validators a subclass of the SQLAlchemy Filter carries, in the order
\* of their registration
FilterValidators == <<"strip_order_by_values", "validate_order_by", "split_str">>

\* class AddressFilter(Filter)
AddressFilter ==
    [name |-> "AddressFilter",
     extra |-> "forbid",
     validators |-> FilterValidators,
     fields |->
        (<<"city">> :> FieldInfo("str", TRUE, FALSE, None)) @@
        (<<"city", "in">> :> FieldInfo("list", TRUE, FALSE, None)) @@
        (<<"country", "not_in">> :> FieldInfo("list", TRUE, FALSE, None)) @@
        (<<"custom_order_by">> :> FieldInfo("list", TRUE, FALSE, None)),
     order |-> <<<<"city">>, <<"city", "in">>, <<"country", "not_in">>,
                 <<"custom_order_by">>>>,
     Constants |-> [model |-> Address,
                    ordering_field_name |-> <<"custom_order_by">>,
                    prefix |-> <<>>,
                    original_filter |-> <<>>,
                    search_field_name |-> <<"search">>,
                    search_model_fields |-> <<>>]]

\* class UserFilter(Filter): one field with a declared default other than
\* None, and the ordering field with a declared default list
UserFilter ==
    [name |-> "UserFilter",
     extra |-> "forbid",
     validators |-> FilterValidators,
     fields |->
        (<<"name">> :> FieldInfo("str", TRUE, FALSE, Str(<<"a">>))) @@
        (<<"name", "in">> :> FieldInfo("list", TRUE, FALSE, None)) @@
        (<<"order_by">> :> FieldInfo("list", FALSE, FALSE, List(<<<<"a">>>>))),
     order |-> <<<<"name">>, <<"name", "in">>, <<"order_by">>>>,
     Constants |-> [model |-> User,
                    ordering_field_name |-> <<"order_by">>,
                    prefix |-> <<>>,
                    original_filter |-> <<>>,
                    search_field_name |-> <<"search">>,
                    search_model_fields |-> <<>>]]

\* class UserFilter(Filter) with a list of int that declares a default
UserFilterIntDefault ==
    [name |-> "UserFilter",
     extra |-> "forbid",
     validators |-> FilterValidators,
     fields |->
        (<<"name">> :> FieldInfo("str", TRUE, FALSE, None)) @@
        (<<"age", "in">> :>
            FieldInfo("list[int]", TRUE, FALSE, IntList(<<<<"1">>, <<"2">>>>))),
     order |-> <<<<"name">>, <<"age", "in">>>>,
     Constants |-> [model |-> User,
                    ordering_field_name |-> <<"order_by">>,
                    prefix |-> <<>>,
                    original_filter |-> <<>>,
                    search_field_name |-> <<"search">>,
                    search_model_fields |-> <<>>]]

\* the classes that declare a default list
DefaultListFilters == {UserFilter, UserFilterIntDefault}

\* what the wire carries for such a class: nothing, another field, or a
\* comma-joined string for a list field
WireKwargs(cls) ==
    {[k \in {} |-> None], (<<"name">> :> Str(<<"b">>))} \cup
    {(f :> Str(v)) :
        f \in {g \in DOMAIN cls.fields :
                  cls.fields[g].annotation \in {"list", "list[int]"}},
        v \in {<<"a">>, <<"a", ",", "a", "b">>, <<"1", ",", "2">>, <<"3">>}}

\* the prefixes with_prefix is called with
Prefixes == {"address", "city"}

DeclaredFilters == {AddressFilter, UserFilter}
PrefixedOnce == {with_prefix(p, AddressFilter) : p \in Prefixes}
PrefixedTwice == {with_prefix(p, with_prefix("address", AddressFilter)) :
                     p \in Prefixes}
FilterTypes == DeclaredFilters \cup PrefixedOnce \cup PrefixedTwice

\* the class objects a module holds: a filter class and the classes derived
\* from it so far, in the order of their creation
ClassesOf(Filter_) == [Filter |-> Filter_, derived |-> <<>>]

\* a with_prefix whose NestedFilter.Constants is the Constants of the class it
\* derives from: the two assignments land on the one object every class
\* shares
with_prefix_call_shared(classes, prefix) ==
    LET Constants == [classes.Filter.Constants EXCEPT
                         !.prefix = <<prefix>>,
                         !.original_filter = <<classes.Filter>>]
    IN [Filter |-> [classes.Filter EXCEPT !.Constants = Constants],
        derived |->
            [i \in 1..Len(classes.derived) |->
                [classes.derived[i] EXCEPT !.Constants = Constants]]
            \o <<[with_prefix(prefix, classes.Filter) EXCEPT
                     !.Constants = Constants]>>]

\* what a call of with_prefix does to the class objects: NestedFilter and
\* its Constants are new classes, and the two assignments go to the new
\* Constants alone
with_prefix_call(classes, prefix) ==
    [Filter |-> classes.Filter,
     derived |-> Append(classes.derived, with_prefix(prefix, classes.Filter))]

\* with_prefix called with each prefix in turn
RECURSIVE with_prefix_calls(_, _)
with_prefix_calls(classes, prefixes) ==
    IF prefixes = <<>> THEN classes
    ELSE with_prefix_calls(with_prefix_call(classes, Head(prefixes)),
                           Tail(prefixes))

---------------------------------------------------------------------------
(* The classes whose filters are compiled.  An attribute name is a str of   *)
(* one symbol.                                                              *)

\* the attributes of the mapped classes
addresses == {<<"street">>, <<"city">>, <<"country">>}
sports == {<<"name">>, <<"is_individual">>}
users == {<<"name">>, <<"age">>, <<"address_id">>, <<"address">>,
          <<"favorite_sports">>}

\* class AddressFilter(Filter) of the tests: no ordering field
AddressFilterNoOrderBy ==
    [name |-> "AddressFilter",
     extra |-> "forbid",
     validators |-> FilterValidators,
     fields |->
        (<<"street", "isnull">> :> FieldInfo("bool", TRUE, FALSE, None)) @@
        (<<"city">> :> FieldInfo("str", TRUE, FALSE, None)),
     order |-> <<<<"street", "isnull">>, <<"city">>>>,
     Constants |-> [model |-> addresses,
                    ordering_field_name |-> <<"order_by">>,
                    prefix |-> <<>>,
                    original_filter |-> <<>>,
                    search_field_name |-> <<"search">>,
                    search_model_fields |-> <<>>]]

\* class AddressFilter(Filter) of the example: the nested filter carries an
\* ordering field of its own, custom_order_by
AddressFilterCustomOrderBy ==
    [AddressFilterNoOrderBy EXCEPT
        !.fields = @ @@ (<<"custom_order_by">> :>
                            FieldInfo("list", TRUE, FALSE, None)),
        !.order = Append(@, <<"custom_order_by">>),
        !.Constants.ordering_field_name = <<"custom_order_by">>]

\* class UserFilter(Filter) of the tests: operators, a nested filter, the
\* search field and no ordering field; name__contains stands for a field
\* whose operator no operator table holds, name__not__like for a field
\* whose name holds two separators
UserFilterNoOrderBy ==
    [name |-> "UserFilter",
     extra |-> "forbid",
     validators |-> FilterValidators,
     fields |->
        (<<"name">> :> FieldInfo("str", TRUE, FALSE, None)) @@
        (<<"name", "neq">> :> FieldInfo("str", TRUE, FALSE, None)) @@
        (<<"name", "like">> :> FieldInfo("str", TRUE, FALSE, None)) @@
        (<<"name", "not">> :> FieldInfo("str", TRUE, FALSE, None)) @@
        (<<"name", "isnull">> :> FieldInfo("bool", TRUE, FALSE, None)) @@
        (<<"name", "contains">> :> FieldInfo("str", TRUE, FALSE, None)) @@
        (<<"name", "not", "like">> :> FieldInfo("str", TRUE, FALSE, None)) @@
        (<<"address">> :> FieldInfo("filter", TRUE, FALSE, Depends)) @@
        (<<"search">> :> FieldInfo("str", TRUE, FALSE, None)),
     order |-> <<<<"name">>, <<"name", "neq">>, <<"name", "like">>,
                 <<"name", "not">>, <<"name", "isnull">>,
                 <<"name", "contains">>, <<"name", "not", "like">>,
                 <<"address">>, <<"search">>>>,
     Constants |-> [model |-> users,
                    ordering_field_name |-> <<"order_by">>,
                    prefix |-> <<>>,
                    original_filter |-> <<>>,
                    search_field_name |-> <<"search">>,
                    search_model_fields |-> <<<<<<"name">>>>>>]]

---------------------------------------------------------------------------
(* Queries.  A query is what a compiler has appended to it: the joins, the  *)
(* predicates and the sort instructions, each in the order of the calls,    *)
(* and the warnings emitted on the way.  A compiler returns Return(query)   *)
(* or raises.                                                               *)

\* the query handed to filter() and sort(): nothing appended yet
select == [joins |-> <<>>, filters |-> <<>>, order_by |-> <<>>,
           warnings |-> <<>>]

\* the items of filtering_fields in the order of the dumped dict, which is the
\* order the class declares its fields in
filtering_items(self) ==
    LET items == filtering_fields(self)
        names == SelectSeq(self.cls.order,
                           LAMBDA f : \E p \in items : p[1] = f)
    IN [i \in 1..Len(names) |-> CHOOSE p \in items : p[1] = names[i]]

\* ordering_values that reads a missing ordering field as no ordering
ordering_values_or_none(self) ==
    IF self.cls.Constants.ordering_field_name \in DOMAIN self.cls.fields
    THEN Return(self.values[self.cls.Constants.ordering_field_name])
    ELSE Return(None)

\* BaseFilterModel.ordering_values: the ordering attribute of the instance,
\* or the AttributeError of a class that declares no such field; arg is the
\* field name the message is formatted with
ordering_values(self) ==
    IF self.cls.Constants.ordering_field_name \in DOMAIN self.cls.fields
    THEN Return(self.values[self.cls.Constants.ordering_field_name])
    ELSE Raise("AttributeError",
               "Ordering field {} is not defined. Make sure to add it to your filter class.",
               self.cls.Constants.ordering_field_name)

\* a compiler that knows no search field
is_search_field_never(self, field_name) == FALSE

\* hasattr(cls.Constants, "search_model_fields") and the field is the search
\* field
is_search_field(self, field_name) ==
    /\ <<field_name>> = self.cls.Constants.search_field_name
    /\ self.cls.Constants.search_model_fields # <<>>

\* f"%{value}%"
percent_wrapped(value) == Str(<<"%">> \o value.s \o <<"%">>)

\* what an operator transformer returns: the comparison and its operand, or
\* the KeyError of an operator the table does not hold
Transformed(operator, value) ==
    [raised |-> FALSE, operator |-> operator, value |-> value,
     warned |-> FALSE]
NoSuchOperator_passed_through ==
    [raised |-> FALSE, operator |-> "", value |-> None, warned |-> FALSE]

\* _orm_operator_transformer[operator] of an operator the table does not hold
NoSuchOperator ==
    [raised |-> TRUE, operator |-> "", value |-> None, warned |-> FALSE]

---------------------------------------------------------------------------
(* The SQLAlchemy compiler. *)

\* a wrapping that looks for the % at the start of the value only
_backward_compatible_value_unless_leading_percent(operator, value) ==
    IF value.s = <<>> \/ value.s[1] # "%"
    THEN [Transformed(operator, percent_wrapped(value)) EXCEPT
             !.warned = TRUE]
    ELSE Transformed(operator, value)

\* _backward_compatible_value_for_like_and_ilike: the value, wrapped in %
\* with a DeprecationWarning when it holds no %
_backward_compatible_value_for_like_and_ilike(operator, value) ==
    IF \A i \in 1..Len(value.s) : value.s[i] # "%"
    THEN [Transformed(operator, percent_wrapped(value)) EXCEPT
             !.warned = TRUE]
    ELSE Transformed(operator, value)

\* a table in which neq is the is_not comparison
sqlalchemy_operator_transformer_neq_is_not(operator, value) ==
    CASE operator = "neq" -> Transformed("is_not", value)
      [] operator = "gt" -> Transformed("__gt__", value)
      [] operator = "gte" -> Transformed("__ge__", value)
      [] operator = "in" -> Transformed("in_", value)
      [] operator = "isnull" ->
             IF value = Bool(TRUE) THEN Transformed("is_", None)
             ELSE Transformed("is_not", None)
      [] operator = "lt" -> Transformed("__lt__", value)
      [] operator = "lte" -> Transformed("__le__", value)
      [] operator = "like" ->
             _backward_compatible_value_for_like_and_ilike("like", value)
      [] operator = "ilike" ->
             _backward_compatible_value_for_like_and_ilike("ilike", value)
      [] operator = "not" -> Transformed("is_not", value)
      [] operator = "not_in" -> Transformed("not_in", value)
      [] OTHER -> NoSuchOperator

\* _orm_operator_transformer[operator](value) of the SQLAlchemy compiler
sqlalchemy_operator_transformer(operator, value) ==
    CASE operator = "neq" -> Transformed("__ne__", value)
      [] operator = "gt" -> Transformed("__gt__", value)
      [] operator = "gte" -> Transformed("__ge__", value)
      [] operator = "in" -> Transformed("in_", value)
      [] operator = "isnull" ->
             IF value = Bool(TRUE) THEN Transformed("is_", None)
             ELSE Transformed("is_not", None)
      [] operator = "lt" -> Transformed("__lt__", value)
      [] operator = "lte" -> Transformed("__le__", value)
      [] operator = "like" ->
             _backward_compatible_value_for_like_and_ilike("like", value)
      [] operator = "ilike" ->
             _backward_compatible_value_for_like_and_ilike("ilike", value)
      [] operator = "not" -> Transformed("is_not", value)
      [] operator = "not_in" -> Transformed("not_in", value)
      [] OTHER -> NoSuchOperator

\* getattr(model_field, operator)(value) on an attribute of a mapped class
Comparison(model, field_name, operator, value) ==
    [model |-> model, field |-> field_name, operator |-> operator,
     value |-> value]

\* or_(*search_filters)
Or(clauses) == [operator |-> "or_", clauses |-> clauses]

\* query.filter(predicate), with the warning of the transformer if any
with_filter(query, predicate, warned) ==
    [query EXCEPT !.filters = Append(@, predicate),
                  !.warnings = IF warned THEN Append(@, "DeprecationWarning")
                               ELSE @]

\* rel.secondary: the association table of a many-to-many relationship
secondary == {<<"secondary">>}

\* _get_relationships(model): the related class, the key and whether the
\* relationship goes through a secondary table, for each relationship
_get_relationships(model) ==
    IF model = users
    THEN <<[key |-> "address", class_ |-> addresses, secondary |-> FALSE],
           [key |-> "favorite_sports", class_ |-> sports, secondary |-> TRUE]>>
    ELSE <<>>

\* a check that takes every nested filter for a set one
_any_field_not_none_always(model) == TRUE

\* _any_field_not_none on the dumped dict of a nested filter
RECURSIVE _any_field_not_none(_)
_any_field_not_none(model) ==
    \E k \in DOMAIN model :
        /\ model[k] # None
        /\ model[k].t = "dict" => _any_field_not_none(model[k].d)

\* Filter._join_relationships from relationship i on
RECURSIVE _join_relationships(_, _, _, _)
_join_relationships(self, query, relationships, i) ==
    IF i > Len(relationships) THEN query
    ELSE LET rel == relationships[i]
             found == {p \in filtering_fields(self) : p[1] = <<rel.key>>}
             joined ==
                 IF found # {} /\ _any_field_not_none((CHOOSE p \in found : TRUE)[2].d)
                 THEN IF rel.secondary
                      THEN [query EXCEPT !.joins =
                               @ \o <<secondary, rel.class_>>]
                      ELSE [query EXCEPT !.joins = Append(@, rel.class_)]
                 ELSE query
         IN _join_relationships(self, joined, relationships, i + 1)

\* the else branch of the loop of Filter._apply_filters, after the operator
\* lookup: the search predicate or the comparison on the model's attribute
sqlalchemy_predicate(self, query, field_name, t) ==
    IF t.raised THEN Raise("KeyError", "", <<>>)
    ELSE IF is_search_field(self, field_name)
    THEN IF \E f \in 1..Len(self.cls.Constants.search_model_fields[1]) :
               self.cls.Constants.search_model_fields[1][f]
                   \notin self.cls.Constants.model
         THEN Raise("AttributeError", "", <<>>)
         ELSE Return(with_filter(query,
                  Or([f \in 1..Len(self.cls.Constants.search_model_fields[1]) |->
                        Comparison(self.cls.Constants.model,
                                   self.cls.Constants.search_model_fields[1][f],
                                   "ilike", percent_wrapped(t.value))]),
                  t.warned))
    ELSE IF <<field_name>> \notin self.cls.Constants.model
    THEN Raise("AttributeError", "", <<>>)
    ELSE Return(with_filter(query,
             Comparison(self.cls.Constants.model, <<field_name>>, t.operator,
                        t.value),
             t.warned))

\* one field that holds no filter: field_name.split("__") unpacked into the
\* name and the operator, or the plain name compared with __eq__
sqlalchemy_field(self, query, field_name, value) ==
    IF Len(field_name) > 2
    THEN Raise("ValueError", "too many values to unpack", <<>>)
    ELSE IF Len(field_name) = 2
    THEN sqlalchemy_predicate(self, query, field_name[1],
             sqlalchemy_operator_transformer(field_name[2], value))
    ELSE sqlalchemy_predicate(self, query, field_name[1],
             Transformed("__eq__", value))

RECURSIVE sqlalchemy_filter(_, _)
RECURSIVE sqlalchemy_apply_filters(_, _, _, _)

\* the rest of the loop once item i is compiled
sqlalchemy_next(self, items, i, r) ==
    IF r.raised THEN r ELSE sqlalchemy_apply_filters(self, r.v, items, i + 1)

\* Filter._apply_filters from item i on
sqlalchemy_apply_filters(self, query, items, i) ==
    IF i > Len(items) THEN Return(query)
    ELSE IF self.values[items[i][1]].t = "filter"
    THEN sqlalchemy_next(self, items, i,
             sqlalchemy_filter(self.values[items[i][1]].inst, query))
    ELSE sqlalchemy_next(self, items, i,
             sqlalchemy_field(self, query, items[i][1], items[i][2]))

\* Filter.filter of the SQLAlchemy compiler
sqlalchemy_filter(self, query) ==
    sqlalchemy_apply_filters(self,
        _join_relationships(self, query,
                            _get_relationships(self.cls.Constants.model), 1),
        filtering_items(self), 1)

\* a sort that takes any marker in the token for a descending one
sqlalchemy_direction_any_marker(field_name) ==
    IF \E i \in 1..Len(field_name) : field_name[i] = "-" THEN "desc"
    ELSE "asc"

\* Direction.desc for a token that starts with "-", Direction.asc otherwise
sqlalchemy_direction(field_name) ==
    IF field_name # <<>> /\ field_name[1] = "-" THEN "desc" ELSE "asc"

\* a sort that takes the direction marker off the front of the token only
sqlalchemy_field_name_leading(field_name) ==
    IF field_name # <<>> /\ field_name[1] \in {"-", "+"}
    THEN Tail(field_name)
    ELSE field_name

\* field_name.replace("-", "").replace("+", "") of Filter.sort
sqlalchemy_field_name(field_name) ==
    Replace(Replace(field_name, "-"), "+")

\* the loop of Filter.sort from token i on
RECURSIVE sqlalchemy_sort_from(_, _, _, _)
sqlalchemy_sort_from(self, query, tokens, i) ==
    IF i > Len(tokens) THEN Return(query)
    ELSE IF sqlalchemy_field_name(tokens[i]) \notin self.cls.Constants.model
    THEN Raise("AttributeError", "", <<>>)
    ELSE sqlalchemy_sort_from(self,
             [query EXCEPT !.order_by = Append(@,
                 [field |-> sqlalchemy_field_name(tokens[i]),
                  direction |-> sqlalchemy_direction(tokens[i])])],
             tokens, i + 1)

\* what sort does with the ordering values it read
sqlalchemy_sorted(self, query, ordering) ==
    IF ordering.raised THEN ordering
    ELSE IF Falsy(ordering.v) THEN Return(query)
    ELSE sqlalchemy_sort_from(self, query, Items(ordering.v), 1)

\* Filter.sort of the SQLAlchemy compiler
sqlalchemy_sort(self, query) ==
    sqlalchemy_sorted(self, query, ordering_values(self))

\* query.order_by(*self.ordering_values) / query.sort(*self.ordering_values):
\* the tokens are handed to the backend as they are
sort_by_tokens(query, ordering) ==
    IF ordering.raised THEN ordering
    ELSE IF Falsy(ordering.v) THEN Return(query)
    ELSE Return([query EXCEPT !.order_by = @ \o Items(ordering.v)])

\* a keyword argument of query.filter(**{key: value}); the key is the
\* sequence of its segments between "__"
Keyword(key, value) == [key |-> key, value |-> value]

---------------------------------------------------------------------------
(* The Tortoise compiler. *)

\* _orm_operator_transformer[operator](value) of the Tortoise compiler
tortoise_operator_transformer(operator, value) ==
    CASE operator = "neq" -> Transformed("not", value)
      [] operator = "gt" -> Transformed("gt", value)
      [] operator = "gte" -> Transformed("gte", value)
      [] operator = "in" -> Transformed("in", value)
      [] operator = "isnull" -> Transformed("isnull", Bool(TRUE))
      [] operator = "lt" -> Transformed("lt", value)
      [] operator = "lte" -> Transformed("lte", value)
      [] operator = "like" -> Transformed("contains", value)
      [] operator = "ilike" -> Transformed("icontains", value)
      [] operator = "not" -> Transformed("not", value)
      [] operator = "not_in" -> Transformed("not_in", value)
      [] OTHER -> NoSuchOperator

\* the search predicate or the keyword f"{field_name}{operator}"
tortoise_predicate(self, query, field_name, t) ==
    IF t.raised THEN Raise("KeyError", "", <<>>)
    ELSE IF is_search_field(self, field_name)
    THEN Return(with_filter(query,
             Or([f \in 1..Len(self.cls.Constants.search_model_fields[1]) |->
                   Keyword(self.cls.Constants.search_model_fields[1][f]
                               \o <<"icontains">>, t.value)]),
             FALSE))
    ELSE Return(with_filter(query,
             Keyword(IF t.operator = "" THEN <<field_name>>
                     ELSE <<field_name, t.operator>>, t.value),
             FALSE))

\* one field that holds no filter
tortoise_field(self, query, field_name, value) ==
    IF Len(field_name) > 2
    THEN Raise("ValueError", "too many values to unpack", <<>>)
    ELSE IF Len(field_name) = 2
    THEN tortoise_predicate(self, query, field_name[1],
             tortoise_operator_transformer(field_name[2], value))
    ELSE tortoise_predicate(self, query, field_name[1],
             Transformed("", value))

RECURSIVE tortoise_filter_from(_, _, _, _)

\* the rest of the loop once item i is compiled
tortoise_next(self, items, i, r) ==
    IF r.raised THEN r ELSE tortoise_filter_from(self, r.v, items, i + 1)

\* the loop of Filter.filter of the Tortoise compiler from item i on
tortoise_filter_from(self, query, items, i) ==
    IF i > Len(items) THEN Return(query)
    ELSE IF self.values[items[i][1]].t = "filter"
    THEN tortoise_next(self, items, i,
             tortoise_filter_from(self.values[items[i][1]].inst, query,
                 filtering_items(self.values[items[i][1]].inst), 1))
    ELSE tortoise_next(self, items, i,
             tortoise_field(self, query, items[i][1], items[i][2]))

\* Filter.filter of the Tortoise compiler
tortoise_filter(self, query) ==
    tortoise_filter_from(self, query, filtering_items(self), 1)

---------------------------------------------------------------------------
(* The MongoEngine compiler. *)

\* field_name.replace("__isnull", "")
without_isnull(field_name) ==
    <<field_name[1]>> \o SelectSeq(Tail(field_name), LAMBDA x : x # "isnull")

\* the keyword of a field that holds no filter: an __isnull field is
\* compared with None, under __ne when its value is False
mongoengine_keyword(field_name, value) ==
    IF EndsWith(field_name, "isnull")
    THEN Keyword(IF value = Bool(FALSE)
                 THEN without_isnull(field_name) \o <<"ne">>
                 ELSE without_isnull(field_name), None)
    ELSE Keyword(field_name, value)

\* the search predicate or the keyword itself
mongoengine_predicate(self, query, k) ==
    IF k.key = self.cls.Constants.search_field_name
       /\ self.cls.Constants.search_model_fields # <<>>
    THEN with_filter(query,
             Or([f \in 1..Len(self.cls.Constants.search_model_fields[1]) |->
                   Keyword(self.cls.Constants.search_model_fields[1][f]
                               \o <<"icontains">>, k.value)]),
             FALSE)
    ELSE with_filter(query, k, FALSE)

\* the loop of Filter.filter of the MongoEngine compiler from item i on; a
\* nested filter with nothing to dump is skipped, another one becomes an
\* __in keyword over the nested filter's own query
RECURSIVE mongoengine_filter_from(_, _, _, _)
mongoengine_filter_from(self, query, items, i) ==
    IF i > Len(items) THEN query
    ELSE IF self.values[items[i][1]].t = "filter"
    THEN IF DOMAIN model_dump(self.values[items[i][1]].inst,
                              TRUE, FALSE, TRUE, FALSE) = {}
         THEN mongoengine_filter_from(self, query, items, i + 1)
         ELSE mongoengine_filter_from(self,
                  with_filter(query,
                      Keyword(items[i][1] \o <<"in">>,
                          mongoengine_filter_from(
                              self.values[items[i][1]].inst, select,
                              filtering_items(self.values[items[i][1]].inst),
                              1)),
                      FALSE),
                  items, i + 1)
    ELSE mongoengine_filter_from(self,
             mongoengine_predicate(self, query,
                 mongoengine_keyword(items[i][1], items[i][2])),
             items, i + 1)

\* Filter.filter of the MongoEngine compiler
mongoengine_filter(self, query) ==
    Return(mongoengine_filter_from(self, query, filtering_items(self), 1))

---------------------------------------------------------------------------
(* The Beanie compiler. *)

\* f".*{value}.*"
regex_wrapped(value) == Str(<<".*">> \o value.s \o <<".*">>)

\* _odm_operator_transformer[operator](value); "$regex.i" is "$regex" with
\* the "$options" "i"
_odm_operator_transformer(operator, value) ==
    CASE operator = "neq" -> Transformed("$ne", value)
      [] operator = "gt" -> Transformed("$gt", value)
      [] operator = "gte" -> Transformed("$gte", value)
      [] operator = "in" -> Transformed("$in", value)
      [] operator = "isnull" ->
             IF value = Bool(TRUE) THEN Transformed("", None)
             ELSE Transformed("$ne", None)
      [] operator = "lt" -> Transformed("$lt", value)
      [] operator = "lte" -> Transformed("$lte", value)
      [] operator = "not" -> Transformed("$ne", value)
      [] operator = "ne" -> Transformed("$ne", value)
      [] operator = "not_in" -> Transformed("$nin", value)
      [] operator = "nin" -> Transformed("$nin", value)
      [] operator = "like" -> Transformed("$regex", regex_wrapped(value))
      [] operator = "ilike" -> Transformed("$regex.i", regex_wrapped(value))
      [] operator = "exists" -> Transformed("$exists", value)
      [] OTHER -> NoSuchOperator

\* one entry of filter_conditions: the condition {key: criterion}, the key a
\* dotted path, and the options of the find
Condition(path, t, fetch_links, nesting_depth) ==
    [path |-> path, operator |-> t.operator, value |-> t.value,
     fetch_links |-> fetch_links, nesting_depth |-> nesting_depth]

\* {"$or": search_conditions}
beanie_search(self, value) ==
    [path |-> <<>>, operator |-> "$or",
     value |-> [f \in 1..Len(self.cls.Constants.search_model_fields[1]) |->
                   Condition(self.cls.Constants.search_model_fields[1][f],
                             Transformed("$regex.i", regex_wrapped(value)),
                             FALSE, 0)],
     fetch_links |-> FALSE, nesting_depth |-> 0]

\* nested conditions that all take the options of the enclosing level
beanie_nested_parts_enclosing(field_name, parts, nesting_depth) ==
    [j \in 1..Len(parts) |->
        [parts[j] EXCEPT
            !.path = field_name \o @,
            !.fetch_links = TRUE,
            !.nesting_depth = nesting_depth]]

\* the conditions of a nested filter, each under the nested field's path; the
\* options of the part override the ones of the enclosing level
beanie_nested_parts(field_name, parts, nesting_depth) ==
    [j \in 1..Len(parts) |->
        [parts[j] EXCEPT
            !.path = field_name \o @,
            !.fetch_links = TRUE,
            !.nesting_depth = IF parts[j].fetch_links THEN @
                              ELSE nesting_depth]]

\* the conditions of one field that holds no filter
beanie_field(self, field_name, value) ==
    IF Len(field_name) > 2
    THEN Raise("ValueError", "too many values to unpack", <<>>)
    ELSE IF Len(field_name) = 2
    THEN IF _odm_operator_transformer(field_name[2], value).raised
         THEN Raise("KeyError", "", <<>>)
         ELSE Return(<<Condition(<<field_name[1]>>,
                          _odm_operator_transformer(field_name[2], value),
                          FALSE, 0)>>)
    ELSE IF field_name = self.cls.Constants.search_field_name
            /\ self.cls.Constants.search_model_fields # <<>>
    THEN Return(<<beanie_search(self, value)>>)
    ELSE Return(<<Condition(field_name, Transformed("", value), FALSE, 0)>>)

RECURSIVE _get_filter_conditions(_, _, _, _, _)

\* the rest of the loop once item i has given its conditions
beanie_next(self, nesting_depth, items, i, filter_conditions, r) ==
    IF r.raised THEN r
    ELSE _get_filter_conditions(self, nesting_depth, items, i + 1,
                                filter_conditions \o r.v)

\* the conditions of a nested filter that dumps to something: the link
\* itself is not None, then the nested filter's own conditions
beanie_nested(field_name, nesting_depth, r) ==
    IF r.raised THEN r
    ELSE Return(<<Condition(field_name, Transformed("$ne", None), TRUE,
                            nesting_depth)>>
                \o beanie_nested_parts(field_name, r.v, nesting_depth))

\* Filter._get_filter_conditions from item i on
_get_filter_conditions(self, nesting_depth, items, i, filter_conditions) ==
    IF i > Len(items) THEN Return(filter_conditions)
    ELSE IF self.values[items[i][1]].t = "filter"
    THEN IF DOMAIN model_dump(self.values[items[i][1]].inst,
                              TRUE, FALSE, TRUE, FALSE) = {}
         THEN _get_filter_conditions(self, nesting_depth, items, i + 1,
                                     filter_conditions)
         ELSE beanie_next(self, nesting_depth, items, i, filter_conditions,
                  beanie_nested(items[i][1], nesting_depth,
                      _get_filter_conditions(self.values[items[i][1]].inst,
                          nesting_depth + 1,
                          filtering_items(self.values[items[i][1]].inst),
                          1, <<>>)))
    ELSE beanie_next(self, nesting_depth, items, i, filter_conditions,
             beanie_field(self, items[i][1], items[i][2]))

\* the link fetching a find(fetch_links=True) turns on, kept with the joins
find_fetch_links == {<<"fetch_links">>}

\* query.find(condition, **kwargs) for every condition, then
\* query.find(fetch_links=True)
beanie_find_all(query, data) ==
    IF data.raised THEN data
    ELSE Return([query EXCEPT !.filters = @ \o data.v,
                              !.joins = Append(@, find_fetch_links)])

\* Filter.filter of the Beanie compiler
beanie_filter(self, query) ==
    beanie_find_all(query,
        _get_filter_conditions(self, 1, filtering_items(self), 1, <<>>))

---------------------------------------------------------------------------
(* The Elasticsearch compiler. *)

\* a query object Q(kind, field=value), negated by ~
Q(kind, path, value, negated) ==
    [kind |-> kind, path |-> path, value |-> value, negated |-> negated]

\* _operator_transformer[operator](value, field_name): the query in a
\* one-element sequence, or the empty sequence for the KeyError of an
\* operator the table does not hold
_operator_transformer(operator, value, path) ==
    CASE operator = "neq" -> <<Q("term", path, value, TRUE)>>
      [] operator = "gt" -> <<Q("range.gt", path, value, FALSE)>>
      [] operator = "gte" -> <<Q("range.gte", path, value, FALSE)>>
      [] operator = "lt" -> <<Q("range.lt", path, value, FALSE)>>
      [] operator = "lte" -> <<Q("range.lte", path, value, FALSE)>>
      [] operator = "in" -> <<Q("terms", path, value, FALSE)>>
      [] operator = "isnull" ->
             <<Q("exists", path, None, value = Bool(TRUE))>>
      [] operator = "not" -> <<Q("term", path, value, TRUE)>>
      [] operator = "not_in" -> <<Q("terms", path, value, TRUE)>>
      [] operator = "nin" -> <<Q("terms", path, value, TRUE)>>
      [] OTHER -> <<>>

\* the k-th of [f"{field}", f"{field}._2gram", f"{field}._3gram"] over the
\* search fields
field_gram(fields, k) ==
    CASE (k - 1) % 3 = 0 -> fields[((k - 1) \div 3) + 1]
      [] (k - 1) % 3 = 1 -> fields[((k - 1) \div 3) + 1] \o <<"._2gram">>
      [] (k - 1) % 3 = 2 -> fields[((k - 1) \div 3) + 1] \o <<"._3gram">>

\* the multi_match query over every search field and its n-gram subfields
elasticsearch_search(self, value) ==
    [kind |-> "multi_match", path |-> <<>>, value |-> value,
     negated |-> FALSE, type |-> "bool_prefix",
     fields |-> [k \in 1..(3 * Len(self.cls.Constants.search_model_fields[1]))
                   |-> field_gram(self.cls.Constants.search_model_fields[1], k)]]

\* Filter.make_query; path is the dotted prefix of the field (the name of
\* the nested filter field, which holds no separator), field_name the
\* segments of its last component
make_query(self, path, field_name, value) ==
    IF Len(field_name) > 2
    THEN Raise("ValueError", "too many values to unpack", <<>>)
    ELSE IF Len(field_name) = 2
    THEN IF _operator_transformer(field_name[2], value,
                                  path \o <<field_name[1]>>) = <<>>
         THEN Raise("KeyError", "", <<>>)
         ELSE Return(_operator_transformer(field_name[2], value,
                                           path \o <<field_name[1]>>)[1])
    ELSE IF path \o field_name = self.cls.Constants.search_field_name
            /\ self.cls.Constants.search_model_fields # <<>>
    THEN Return(elasticsearch_search(self, value))
    ELSE Return(Q("term", path \o field_name, value, FALSE))

\* the queries of the fields of a nested filter, made by the enclosing
\* filter's make_query under the nested field's path
RECURSIVE elasticsearch_nested_queries(_, _, _, _, _)
elasticsearch_nested_queries(self, path, items, i, nested_queries) ==
    IF i > Len(items) THEN Return(nested_queries)
    ELSE IF make_query(self, path, items[i][1], items[i][2]).raised
    THEN make_query(self, path, items[i][1], items[i][2])
    ELSE elasticsearch_nested_queries(self, path, items, i + 1,
             Append(nested_queries,
                    make_query(self, path, items[i][1], items[i][2]).v))

\* the loop of Filter.filter of the Elasticsearch compiler from item i on:
\* search.query("nested", ...) returns a new Search that the loop does not
\* keep, so only an exception of the nested queries has an effect
RECURSIVE elasticsearch_queries(_, _, _, _)
elasticsearch_queries(self, items, i, queries) ==
    IF i > Len(items) THEN Return(queries)
    ELSE IF self.values[items[i][1]].t = "filter"
    THEN IF elasticsearch_nested_queries(self, items[i][1],
                filtering_items(self.values[items[i][1]].inst), 1,
                <<>>).raised
         THEN elasticsearch_nested_queries(self, items[i][1],
                  filtering_items(self.values[items[i][1]].inst), 1, <<>>)
         ELSE elasticsearch_queries(self, items, i + 1, queries)
    ELSE IF make_query(self, <<>>, items[i][1], items[i][2]).raised
    THEN make_query(self, <<>>, items[i][1], items[i][2])
    ELSE elasticsearch_queries(self, items, i + 1,
             Append(queries,
                    make_query(self, <<>>, items[i][1], items[i][2]).v))

\* search.query(queries)
elasticsearch_query(search, queries) ==
    IF queries.raised THEN queries
    ELSE Return([search EXCEPT !.filters = @ \o queries.v])

\* Filter.filter of the Elasticsearch compiler
elasticsearch_filter(self, search) ==
    elasticsearch_query(search,
        elasticsearch_queries(self, filtering_items(self), 1, <<>>))

---------------------------------------------------------------------------
(* The five compilers. *)

Backends == {"sqlalchemy", "tortoise", "mongoengine", "beanie",
             "elasticsearch"}

\* filter_.filter(query) of a filter of the given backend
filter(backend_, self, query) ==
    CASE backend_ = "sqlalchemy" -> sqlalchemy_filter(self, query)
      [] backend_ = "tortoise" -> tortoise_filter(self, query)
      [] backend_ = "mongoengine" -> mongoengine_filter(self, query)
      [] backend_ = "beanie" -> beanie_filter(self, query)
      [] backend_ = "elasticsearch" -> elasticsearch_filter(self, query)

\* filter_.sort(query) of a filter of the given backend
sort(backend_, self, query) ==
    IF backend_ = "sqlalchemy" THEN sqlalchemy_sort(self, query)
    ELSE sort_by_tokens(query, ordering_values(self))

\* the split_str validator a subclass of the Filter of a backend carries
split_str_of(backend_) ==
    CASE backend_ = "sqlalchemy" -> "split_str"
      [] backend_ = "tortoise" -> "tortoise.split_str"
      [] backend_ = "mongoengine" -> "mongoengine.split_str"
      [] backend_ = "beanie" -> "beanie.split_str"
      [] backend_ = "elasticsearch" -> "elasticsearch.split_str"

\* the operators with a list value of the operator table of a backend; the
\* MongoEngine compiler has no table and hands in and nin to the library
ListOperators(backend_) ==
    CASE backend_ = "sqlalchemy" -> {"in", "not_in"}
      [] backend_ = "tortoise" -> {"in", "not_in"}
      [] backend_ = "mongoengine" -> {"in", "nin"}
      [] backend_ = "beanie" -> {"in", "not_in", "nin"}
      [] backend_ = "elasticsearch" -> {"in", "not_in", "nin"}

\* class UserFilter(Filter) of a backend with one Optional list field for
\* each list operator of the backend
ListFilter(backend_) ==
    [name |-> "UserFilter",
     extra |-> "forbid",
     validators |-> <<"strip_order_by_values", "validate_order_by",
                      split_str_of(backend_)>>,
     fields |-> [f \in {<<"name", o>> : o \in ListOperators(backend_)} |->
                    FieldInfo("list", TRUE, FALSE, None)],
     order |-> SelectSeq(<<<<"name", "in">>, <<"name", "not_in">>,
                           <<"name", "nin">>>>,
                         LAMBDA f : f[2] \in ListOperators(backend_)),
     Constants |-> [model |-> users,
                    ordering_field_name |-> <<"order_by">>,
                    prefix |-> <<>>,
                    original_filter |-> <<>>,
                    search_field_name |-> <<"search">>,
                    search_model_fields |-> <<>>]]

\* a Beanie filter on a document with a link to a document of its kind: a
\* scalar field and a nested filter of the same shape
LinkFilter ==
    [name |-> "LinkFilter",
     extra |-> "forbid",
     validators |-> <<"strip_order_by_values", "validate_order_by",
                      "beanie.split_str">>,
     fields |->
        (<<"name">> :> FieldInfo("str", TRUE, FALSE, None)) @@
        (<<"link">> :> FieldInfo("filter", TRUE, FALSE, Depends)),
     order |-> <<<<"name">>, <<"link">>>>,
     Constants |-> [model |-> {<<"name">>, <<"link">>},
                    ordering_field_name |-> <<"order_by">>,
                    prefix |-> <<>>,
                    original_filter |-> <<>>,
                    search_field_name |-> <<"search">>,
                    search_model_fields |-> <<>>]]

\* the keywords of a LinkFilter whose nested filters go at most depth deep:
\* the name or not, and a nested filter or not
RECURSIVE LinkKwargs(_)
LinkKwargs(depth) ==
    LET names == {[k \in {} |-> None], (<<"name">> :> Str(<<"a">>))}
    IN IF depth = 0 THEN names
       ELSE {d @@ l : d \in names,
                      l \in {[k \in {} |-> None]} \cup
                            {(<<"link">> :>
                                 Nested(construct(LinkFilter, n).inst[1])) :
                                n \in LinkKwargs(depth - 1)}}

---------------------------------------------------------------------------
(* The inputs. *)

\* the keywords a caller may pass to a class: its field names, its aliases
\* and a name it does not declare
Keywords(cls) ==
    DOMAIN cls.fields \cup {lookup_key(cls, f) : f \in DOMAIN cls.fields}
        \cup {<<"bogus_filter">>}

RawValues == {None, Str(<<>>), Str(<<"a">>), Str(<<"a", ",", "b">>),
              List(<<<<"a">>>>)}

KwargsOf(cls) ==
    UNION {[K -> RawValues] :
              K \in {S \in SUBSET Keywords(cls) : Cardinality(S) <= MaxKeys}}

\* ordering tokens: plain, with a leading marker, with a marker elsewhere,
\* doubly marked, unknown to one or both mapped classes, and padded
OrderTokens == {<<"a">>, <<"-", "a">>, <<"+", "a">>,
                <<"a", "b">>, <<"-", "a", "b">>, <<"a", "-", "b">>,
                <<"-", "-", "a">>, <<"b">>, <<" ", "a">>}

TokenLists == SeqsUpTo(OrderTokens, MaxTokens)

\* comma-free tokens, the empty one among them, and their sequences
SplitTokens == {<<>>, <<"a">>, <<"b">>, <<"a", "b">>}
SplitLists == SeqsUpTo(SplitTokens, MaxSplitTokens)

\* what a request passes for a nested filter that has an ordering field:
\* address__custom_order_by=city alone, and next to address__city=a
NestedOrderingKwargs ==
    {(<<"custom_order_by">> :> List(<<<<"city">>>>)),
     (<<"custom_order_by">> :> List(<<<<"city">>>>)) @@
         (<<"city">> :> Str(<<"a">>))}

\* the values a caller passes for a field of a compiled filter, by the
\* field's annotation: for a nested filter field, None or an instance of the
\* nested class
ValuesOf(info) ==
    CASE info.annotation = "str" -> {None, Str(<<"a">>)}
      [] info.annotation = "bool" -> {None, Bool(TRUE), Bool(FALSE)}
      [] info.annotation = "filter" ->
             {None} \cup
             {Nested(c.inst[1]) : c \in
                {built \in
                    {construct(AddressFilterNoOrderBy, d) :
                        d \in UNION {[K -> {None, Str(<<"a">>), Bool(TRUE),
                                            Bool(FALSE)}] :
                            K \in SUBSET DOMAIN AddressFilterNoOrderBy.fields}} :
                    built.ok}} \cup
             {Nested(construct(AddressFilterCustomOrderBy, d).inst[1]) :
                d \in NestedOrderingKwargs}
      [] OTHER -> {None}

\* the keyword sets of at most MaxKeys fields of a compiled filter, each
\* field with a value of its annotation
RECURSIVE TypedKwargs(_, _, _)
TypedKwargs(cls, names, n) ==
    IF names = {} \/ n = 0 THEN {[k \in {} |-> None]}
    ELSE LET f == CHOOSE g \in names : TRUE
             rest == TypedKwargs(cls, names \ {f}, n)
             fewer == TypedKwargs(cls, names \ {f}, n - 1)
         IN rest \cup {(f :> v) @@ d : v \in ValuesOf(cls.fields[f]), d \in fewer}

FilterKwargs ==
    TypedKwargs(UserFilterNoOrderBy, DOMAIN UserFilterNoOrderBy.fields, MaxKeys)

\* the queries handed to filter() and sort(): select(User) and
\* select(User).outerjoin(Address)
Queries == {select, [select EXCEPT !.joins = <<addresses>>]}

\* the classes whose instances are sorted: an Optional ordering list, an
\* ordering list with a declared default, and no ordering field
SortedFilters == {AddressFilter, UserFilter, UserFilterNoOrderBy}

\* a request that filters and sorts: one str field of the class and an
\* ordering token
FilterAndSortKwargs(cls) ==
    ((CHOOSE f \in DOMAIN cls.fields :
         Len(f) = 1 /\ cls.fields[f].annotation = "str") :> Str(<<"a">>)) @@
    (cls.Constants.ordering_field_name :> List(<<<<"-", "a">>>>))

\* what a caller passes for the ordering field: nothing, None, a str or a
\* list of tokens, and a list of tokens next to a filter field
SortKwargs(cls) ==
    {[k \in {} |-> None], FilterAndSortKwargs(cls)} \cup
    {(cls.Constants.ordering_field_name :> v) :
        v \in {None, Str(<<>>), Str(<<"-", "a", ",", "a", "b">>)} \cup
              {List(tokens) : tokens \in SeqsUpTo(OrderTokens, MaxSortTokens)}}

\* the values handed to the like and ilike operators
LikeValues == {Str(s) : s \in SeqsUpTo({"a", "%"}, MaxLikeLen)}

---------------------------------------------------------------------------
(* The state machine: a request makes one call and ends; the state is the  *)
(* call in progress and what it produced.  No state outlives a request.    *)

NoResult == [ok |-> TRUE, exc |-> "", errors |-> {}, inst |-> <<>>,
             value |-> None, outcome |-> Return(None)]

Init ==
    /\ op = "idle"
    /\ Filter = AddressFilter
    /\ by_alias = FALSE
    /\ kwargs = [k \in {} |-> None]
    /\ result = NoResult
    /\ backend = "sqlalchemy"
    /\ given_query = select

\* Filter(**kwargs) with arbitrary keywords
Construct ==
    /\ op = "idle"
    /\ \E cls \in FilterTypes : \E data \in KwargsOf(cls) :
        /\ op' = "construct"
        /\ Filter' = cls
        /\ by_alias' = FALSE
        /\ kwargs' = data
        /\ result' = construct(cls, data) @@ NoResult
        /\ UNCHANGED <<backend, given_query>>

\* Filter(<ordering field>=[token, ...])
ConstructOrdered ==
    /\ op = "idle"
    /\ \E cls \in DeclaredFilters : \E tokens \in TokenLists :
        LET data == (cls.Constants.ordering_field_name :> List(tokens))
        IN /\ op' = "construct"
           /\ Filter' = cls
           /\ by_alias' = FALSE
           /\ kwargs' = data
           /\ result' = construct(cls, data) @@ NoResult
           /\ UNCHANGED <<backend, given_query>>

\* FilterDepends(Filter) at the declaration of a route, then the dependency
\* called with keywords if there is one
CallFilterDepends ==
    /\ op = "idle"
    /\ \E cls \in DefaultListFilters : \E data \in WireKwargs(cls) :
        /\ op' = "FilterDepends"
        /\ Filter' = cls
        /\ by_alias' = FALSE
        /\ kwargs' = data
        /\ result' = IF FilterDepends(cls).raised
                      THEN [NoResult EXCEPT !.ok = FALSE,
                                            !.exc = FilterDepends(cls).type]
                      ELSE wrap(cls, FALSE,
                                construct(FilterDepends(cls).v, data))
                           @@ NoResult
        /\ UNCHANGED <<backend, given_query>>

\* with_prefix(prefix, Filter) called one or more times on one class
CallWithPrefix ==
    /\ op = "idle"
    /\ \E cls \in DeclaredFilters \cup PrefixedOnce :
       \E prefixes \in SeqsUpTo(Prefixes, MaxCalls) \ {<<>>} :
        /\ op' = "with_prefix"
        /\ Filter' = cls
        /\ by_alias' = FALSE
        /\ kwargs' = [k \in {} |-> None]
        /\ result' = [NoResult EXCEPT
                         !.value = [calls |-> prefixes,
                                    classes |-> with_prefix_calls(
                                        ClassesOf(cls), prefixes)]]
        /\ UNCHANGED <<backend, given_query>>

\* the dependency FilterDepends(Filter, by_alias=...) called with keywords
CallFilterWrapper ==
    /\ op = "idle"
    /\ \E cls \in FilterTypes : \E alias \in BOOLEAN : \E data \in KwargsOf(cls) :
        /\ op' = "FilterWrapper"
        /\ Filter' = cls
        /\ by_alias' = alias
        /\ kwargs' = data
        /\ result' = FilterWrapper(cls, alias, data) @@ NoResult
        /\ UNCHANGED <<backend, given_query>>

\* Filter.split_str applied to the value of one field
SplitStr ==
    /\ op = "idle"
    /\ \E cls \in DeclaredFilters : \E field_name \in DOMAIN cls.fields :
       \E tokens \in SplitLists : \E joined \in BOOLEAN :
        LET value == IF joined THEN Str(Join(tokens, <<",">>)) ELSE List(tokens)
        IN /\ op' = "split_str"
           /\ Filter' = cls
           /\ by_alias' = FALSE
           /\ kwargs' = (field_name :> value)
           /\ result' = [NoResult EXCEPT
                            !.value = split_str(cls, value, field_name)]
           /\ UNCHANGED <<backend, given_query>>

\* a compiler that consumes the filter: the fields it compiled are unset
self_after_call_consumed(self) ==
    [self EXCEPT !.values = [f \in DOMAIN self.values |-> None],
                 !.fields_set = {}]

\* the filter instance once filter() or sort() has returned or raised: no
\* compiler assigns to self or to a value it holds
self_after_call(self) == self

\* what a request that builds a filter and compiles it produces: the
\* construction, and the outcome of the call on the instance if there is one
filtered(backend_, built, query_) ==
    IF built.ok
    THEN [built @@ NoResult EXCEPT
             !.inst = <<self_after_call(built.inst[1])>>,
             !.outcome = filter(backend_, built.inst[1], query_)]
    ELSE built @@ NoResult
sorted_by(backend_, built, query_) ==
    IF built.ok
    THEN [built @@ NoResult EXCEPT
             !.inst = <<self_after_call(built.inst[1])>>,
             !.outcome = sort(backend_, built.inst[1], query_)]
    ELSE built @@ NoResult

\* a request with a comma-joined string for a field with a list operator:
\* the class of the backend is constructed and filter() compiles it
CallListOperator ==
    /\ op = "idle"
    /\ \E backend_ \in Backends : \E operator \in ListOperators(backend_) :
       \E tokens \in SplitLists :
        LET data == (<<"name", operator>> :> Str(Join(tokens, <<",">>)))
        IN /\ op' = "filter list"
           /\ Filter' = ListFilter(backend_)
           /\ by_alias' = FALSE
           /\ kwargs' = data
           /\ backend' = backend_
           /\ given_query' = select
           /\ result' = filtered(backend_,
                                 construct(ListFilter(backend_), data), select)

\* user_filter = UserFilter(**kwargs); query = user_filter.filter(query)
CallFilter ==
    /\ op = "idle"
    /\ \E b \in Backends : \E q \in Queries : \E data \in FilterKwargs :
        /\ op' = "filter"
        /\ Filter' = UserFilterNoOrderBy
        /\ by_alias' = FALSE
        /\ kwargs' = data
        /\ backend' = b
        /\ given_query' = q
        /\ result' = filtered(b, construct(UserFilterNoOrderBy, data), q)

\* query = Filter(<ordering field>=...).sort(query)
CallSort ==
    /\ op = "idle"
    /\ \E b \in Backends : \E q \in Queries : \E cls \in SortedFilters :
       \E data \in SortKwargs(cls) :
        /\ op' = "sort"
        /\ Filter' = cls
        /\ by_alias' = FALSE
        /\ kwargs' = data
        /\ backend' = b
        /\ given_query' = q
        /\ result' = sorted_by(b, construct(cls, data), q)

\* filter() of the Beanie compiler on a filter with nested filters
CallFilterLinks ==
    /\ op = "idle"
    /\ \E data \in LinkKwargs(MaxDepth) :
        /\ op' = "filter links"
        /\ Filter' = LinkFilter
        /\ by_alias' = FALSE
        /\ kwargs' = data
        /\ backend' = "beanie"
        /\ given_query' = select
        /\ result' = filtered("beanie", construct(LinkFilter, data), select)

\* _orm_operator_transformer["like" or "ilike"](value) of the SQLAlchemy
\* compiler
CallLike ==
    /\ op = "idle"
    /\ \E operator \in {"like", "ilike"} : \E value \in LikeValues :
        /\ op' = "like"
        /\ Filter' = UserFilterNoOrderBy
        /\ by_alias' = FALSE
        /\ kwargs' = (<<"name", operator>> :> value)
        /\ backend' = "sqlalchemy"
        /\ given_query' = select
        /\ result' = [NoResult EXCEPT
                         !.outcome =
                             sqlalchemy_operator_transformer(operator, value)]

\* a further call on the instance of the request
called(method, backend_, built, query_) ==
    [built EXCEPT
        !.inst = <<self_after_call(built.inst[1])>>,
        !.outcome = IF method = "filter"
                    THEN filter(backend_, built.inst[1], query_)
                    ELSE sort(backend_, built.inst[1], query_)]

\* the queries a further call is made on: a fresh one, or the query the call
\* before returned for a fresh one
NextQueries ==
    {select} \cup
    (IF given_query = select /\ ~result.outcome.raised
     THEN {result.outcome.v} ELSE {})

\* query = user_filter.filter(query) or query = user_filter.sort(query) on
\* the instance a call of this request was already made on
CallAgain ==
    /\ op \in {"filter", "sort", "filter again", "sort again"}
    /\ result.ok
    /\ \E method \in {"filter", "sort"} : \E q \in NextQueries :
        /\ op' = IF method = "filter" THEN "filter again" ELSE "sort again"
        /\ given_query' = q
        /\ result' = called(method, backend, result, q)
        /\ UNCHANGED <<Filter, by_alias, kwargs, backend>>

\* the request ends: nothing of it is kept
Finish ==
    /\ op # "idle"
    /\ op' = "idle"
    /\ Filter' = AddressFilter
    /\ by_alias' = FALSE
    /\ kwargs' = [k \in {} |-> None]
    /\ result' = NoResult
    /\ backend' = "sqlalchemy"
    /\ given_query' = select

Next ==
    \/ Construct \/ ConstructOrdered \/ CallFilterWrapper \/ SplitStr
    \/ CallFilter \/ CallSort \/ CallLike \/ CallAgain \/ CallListOperator
    \/ CallFilterLinks \/ CallFilterDepends \/ CallWithPrefix \/ Finish

Spec == Init /\ [][Next]_vars

---------------------------------------------------------------------------
(* Vocabulary of the properties. *)

\* the instance a successful call returned
Inst == result.inst[1]

\* the keys a class declares: its field names and its aliases
DeclaredKeys(cls) ==
    DOMAIN cls.fields \cup
        {cls.fields[f].alias[1] : f \in {g \in DOMAIN cls.fields :
                                            cls.fields[g].alias # <<>>}}

\* the keyword that carries the ordering of the called class
OrderingKey == lookup_key(Filter, Filter.Constants.ordering_field_name)

\* a token without its direction markers
MarkersRemoved(token) == SelectSeq(token, LAMBDA c : c \notin {"-", "+"})

\* a token without its one leading direction marker
LeadingMarkerRemoved(token) ==
    IF token # <<>> /\ token[1] \in {"-", "+"} THEN Tail(token) ELSE token

\* the call constructs a filter from a non-empty list of ordering tokens
OrderedConstruction ==
    /\ op = "construct"
    /\ OrderingKey \in DOMAIN kwargs
    /\ kwargs[OrderingKey].t = "list"
    /\ kwargs[OrderingKey].l # <<>>

Tokens == kwargs[OrderingKey].l

\* positions of the tokens whose base name another token shares
DuplicatePositions ==
    {i \in 1..Len(Tokens) : \E j \in 1..Len(Tokens) :
        j # i /\ MarkersRemoved(Tokens[j]) = MarkersRemoved(Tokens[i])}

\* position q comes before position p in the message: smaller base name
\* first, and for one base name the earlier occurrence first
Precedes(q, p) ==
    \/ StrLess(MarkersRemoved(Tokens[q]), MarkersRemoved(Tokens[p]))
    \/ MarkersRemoved(Tokens[q]) = MarkersRemoved(Tokens[p]) /\ q < p

ExpectedAmbiguous ==
    [k \in 1..Cardinality(DuplicatePositions) |->
        Tokens[CHOOSE p \in DuplicatePositions :
                   Cardinality({q \in DuplicatePositions : Precedes(q, p)}) = k - 1]]

\* the first position whose base name is no attribute of the model
FirstUnknown ==
    CHOOSE i \in 1..Len(Tokens) :
        /\ MarkersRemoved(Tokens[i]) \notin Filter.Constants.model
        /\ \A j \in 1..(i - 1) :
               MarkersRemoved(Tokens[j]) \in Filter.Constants.model

HasUnknownToken ==
    \E i \in 1..Len(Tokens) :
        MarkersRemoved(Tokens[i]) \notin Filter.Constants.model

---------------------------------------------------------------------------
(* The properties. *)

C2_ClosedSchemaAtWrapper ==
    (op = "FilterWrapper"
        /\ \E k \in DOMAIN kwargs : k \notin DeclaredKeys(Filter))
        => ~result.ok

\* C3: for a non-empty ordering token list whose tokens all name model
\* attributes, construction fails iff two tokens share a base name; the
\* error then lists exactly the tokens of the duplicated base names, grouped
\* by base name in sorted order and in order of occurrence inside a group,
\* joined by ", "; without duplicates the list is accepted.
C3_OrderingDuplicateDetection ==
    (/\ OrderedConstruction
     /\ DOMAIN kwargs = {OrderingKey}
     /\ \A i \in 1..Len(Tokens) :
            MarkersRemoved(Tokens[i]) \in Filter.Constants.model)
        => IF DuplicatePositions = {}
           THEN result.ok
           ELSE /\ ~result.ok
                /\ result.inst = <<>>
                /\ result.errors =
                     {[loc |-> OrderingKey, type |-> "value_error",
                       msg |-> "ambiguous",
                       arg |-> Join(ExpectedAmbiguous, <<",", " ">>)]}

\* four tokens over two duplicated base names, the greater name first, are
\* rejected
C3_Witness ==
    /\ OrderedConstruction
    /\ Len(Tokens) = 4
    /\ \A i \in 1..Len(Tokens) :
           MarkersRemoved(Tokens[i]) \in Filter.Constants.model
    /\ Cardinality(DuplicatePositions) = 4
    /\ StrLess(MarkersRemoved(Tokens[2]), MarkersRemoved(Tokens[1]))
    /\ Tokens[3] # Tokens[1]
    /\ ~result.ok

\* C4 (as claimed): an ordering list with a token whose base name is no
\* attribute of the model fails at construction, and the error names the
\* offending token.
C4_UnknownOrderingNamesToken ==
    (OrderedConstruction /\ HasUnknownToken)
        => /\ ~result.ok
           /\ \E e \in result.errors :
                 /\ e.loc = OrderingKey
                 /\ e.msg = "not a valid ordering field"
                 /\ e.arg \in {Tokens[i] : i \in
                        {j \in 1..Len(Tokens) :
                            MarkersRemoved(Tokens[j])
                                \notin Filter.Constants.model}}

\* C4 (amended): an ordering list with a token whose base name is no
\* attribute of the model fails at construction with a validation error, no
\* instance is produced, and the error names the base name (the token
\* without its direction markers) of the first such token.
C4_UnknownOrderingNamesBase ==
    (OrderedConstruction /\ HasUnknownToken)
        => /\ ~result.ok
           /\ result.exc = "ValidationError"
           /\ result.inst = <<>>
           /\ \E e \in result.errors :
                 /\ e.loc = OrderingKey
                 /\ e.type = "value_error"
                 /\ e.msg = "not a valid ordering field"
                 /\ e.arg = MarkersRemoved(Tokens[FirstUnknown])

\* a list whose second token carries a marker and an unknown base name is
\* rejected
C4_Witness ==
    /\ OrderedConstruction
    /\ Len(Tokens) >= 2
    /\ HasUnknownToken
    /\ FirstUnknown = 2
    /\ Tokens[2] # MarkersRemoved(Tokens[2])
    /\ ~result.ok

\* C5 (as claimed): a token is accepted iff the token without its one
\* leading "-" or "+" is an attribute of the model.
C5_BaseNameIsLeadingMarkerOnly ==
    (/\ OrderedConstruction
     /\ Filter \in DeclaredFilters
     /\ DOMAIN kwargs = {OrderingKey}
     /\ Len(Tokens) = 1)
        => (result.ok <=>
               LeadingMarkerRemoved(Tokens[1]) \in Filter.Constants.model)

\* C6: filtering_fields of a constructed filter is exactly the set of
\* (name, value) pairs of the fields that were supplied at construction and
\* whose value is not None, without the ordering field.
C6_FilteringFieldsAreSuppliedNonNone ==
    (op = "construct" /\ result.ok)
        => filtering_fields(Inst) =
             {<<f, Inst.values[f]>> :
                 f \in {g \in DOMAIN Filter.fields :
                          /\ lookup_key(Filter, g) \in DOMAIN kwargs
                          /\ Inst.values[g] # None
                          /\ g # Filter.Constants.ordering_field_name}}

\* a filter with a declared non-None default is constructed with another
\* field supplied and the defaulted field left out
C6_Witness ==
    /\ op = "construct"
    /\ result.ok
    /\ Filter = UserFilter
    /\ DOMAIN kwargs = {<<"name", "in">>, <<"order_by">>}
    /\ Inst.values[<<"name">>] # None
    /\ Inst.values[<<"name", "in">>] # None
    /\ Inst.values[<<"order_by">>] # None

\* C7 (as claimed): a field left at its declared default is not in
\* filtering_fields, and a field explicitly supplied with a value equal to
\* its default is, for direct construction and for the FilterDepends wrapper.
C7_ExplicitDefaultParticipates ==
    (op \in {"construct", "FilterWrapper"} /\ result.ok)
        => \A f \in DOMAIN Inst.cls.fields :
              LET default == Inst.cls.fields[f].default
                  key == lookup_key(Filter, f)
              IN (f # Inst.cls.Constants.ordering_field_name /\ default # None)
                    => /\ key \notin DOMAIN kwargs
                          => \A pair \in filtering_fields(Inst) : pair[1] # f
                       /\ (key \in DOMAIN kwargs /\ kwargs[key] = default)
                          => <<f, default>> \in filtering_fields(Inst)

\* the fields split_str treats as lists by their operator suffix
ListOperatorField(field_name) ==
    EndsWith(field_name, "in") \/ EndsWith(field_name, "not_in")

\* the field and the value split_str was applied to
SplitField == CHOOSE f \in DOMAIN kwargs : TRUE
SplitInput == kwargs[SplitField]

C9_PrefixRoundTrip ==
    (/\ op = "FilterWrapper"
     /\ Filter \in PrefixedOnce
     /\ \E f \in DOMAIN Filter.fields :
            DOMAIN kwargs = {lookup_key(Filter, f)}
     /\ \A k \in DOMAIN kwargs : kwargs[k].t = "str")
        => LET F == Filter.Constants.original_filter[1]
               f == CHOOSE g \in DOMAIN Filter.fields :
                        DOMAIN kwargs = {lookup_key(Filter, g)}
               expected == construct(F, (f :> kwargs[lookup_key(Filter, f)]))
           IN expected.ok
                 => /\ result.ok
                    /\ Inst.cls = F
                    /\ Inst.values = expected.inst[1].values

\* C10 (as claimed): the value the wrapper produces is an instance of the
\* original unprefixed filter class, never of a class derived by
\* with_prefix, also when with_prefix was applied to a prefixed class; for
\* an unprefixed Filter it is an instance of Filter.
C10_WrapperReturnsUnprefixedType ==
    (op = "FilterWrapper" /\ result.ok)
        => /\ Inst.cls \in DeclaredFilters
           /\ Filter \in DeclaredFilters => Inst.cls = Filter

---------------------------------------------------------------------------
(* Vocabulary of the properties of the compilers. *)

\* the call sorts with an instance of a class that declares an ordering field
SortOfOrderedFilter ==
    /\ op = "sort"
    /\ result.ok
    /\ Filter.Constants.ordering_field_name \in DOMAIN Filter.fields

\* the ordering value the sorted instance holds
OrderingValue == Inst.values[Filter.Constants.ordering_field_name]

\* the sort instruction the SQLAlchemy compiler owes to a token
ExpectedInstruction(token) ==
    [field |-> MarkersRemoved(token),
     direction |-> IF token # <<>> /\ token[1] = "-" THEN "desc" ELSE "asc"]

\* what the call returned
Returned == result.outcome.v

\* C11: sort() appends to the query exactly one sort instruction per ordering
\* token, in the order of the tokens, and changes nothing else of the query;
\* in the SQLAlchemy compiler the instruction is descending iff the token
\* starts with "-" and ascending for a leading "+" or no marker, in the other
\* compilers the instruction is the token itself.
C11_SortCompilesTokensInOrder ==
    (SortOfOrderedFilter /\ ~Falsy(OrderingValue))
        => /\ ~result.outcome.raised
           /\ Returned.joins = given_query.joins
           /\ Returned.filters = given_query.filters
           /\ Returned.order_by =
                  given_query.order_by \o
                  [i \in 1..Len(OrderingValue.l) |->
                      IF backend = "sqlalchemy"
                      THEN ExpectedInstruction(OrderingValue.l[i])
                      ELSE OrderingValue.l[i]]

\* a descending token then an ascending one with a "+" were compiled, in
\* that order
C11_Witness ==
    /\ op = "sort"
    /\ backend = "sqlalchemy"
    /\ Filter = UserFilter
    /\ result.ok
    /\ OrderingValue = List(<<<<"-", "a", "b">>, <<"+", "a">>>>)
    /\ ~result.outcome.raised
    /\ Returned.order_by = <<[field |-> <<"a", "b">>, direction |-> "desc"],
                             [field |-> <<"a">>, direction |-> "asc"]>>

\* C12: for every class that declares an ordering field, as an Optional list
\* or as a list with a declared default, an ordering input that is None, an
\* empty list or an empty string makes construction succeed with no
\* ordering, and sort() returns the query it was given unchanged.
C12_EmptyOrderingIsNoOrdering ==
    (/\ op = "sort"
     /\ Filter.Constants.ordering_field_name \in DOMAIN Filter.fields
     /\ OrderingKey \in DOMAIN kwargs
     /\ kwargs[OrderingKey] \in {None, List(<<>>), Str(<<>>)})
        => /\ result.ok
           /\ OrderingValue = None
           /\ ~result.outcome.raised
           /\ Returned = given_query

\* C13: on a filter whose class declares no field named
\* Constants.ordering_field_name, sort() raises the AttributeError "Ordering
\* field <name> is not defined. Make sure to add it to your filter class." in
\* every backend, and returns no query.
C13_MissingOrderingFieldRaises ==
    (/\ op = "sort"
     /\ result.ok
     /\ Filter.Constants.ordering_field_name \notin DOMAIN Filter.fields)
        => /\ result.outcome.raised
           /\ result.outcome.type = "AttributeError"
           /\ result.outcome.msg =
                  "Ordering field {} is not defined. Make sure to add it to your filter class."
           /\ result.outcome.arg = Filter.Constants.ordering_field_name
           /\ Returned = None

\* a filter without an ordering field was sorted by the MongoEngine compiler
C13_Witness ==
    /\ op = "sort"
    /\ backend = "mongoengine"
    /\ Filter = UserFilterNoOrderBy
    /\ result.ok
    /\ given_query # select
    /\ result.outcome.raised
    /\ result.outcome.arg = <<"order_by">>

\* the call compiled a filter that was built, and raised nothing
Compiled == op = "filter" /\ result.ok /\ ~result.outcome.raised

\* the predicates of the returned query
Predicates == {Returned.filters[i] : i \in 1..Len(Returned.filters)}

\* the field was passed with a value other than None
IsSet(field_name) ==
    field_name \in DOMAIN kwargs /\ kwargs[field_name] # None

\* IS NULL (null = TRUE) or IS NOT NULL (null = FALSE) on an attribute, as a
\* relational compiler writes it
IsNullPredicate(backend_, base, null) ==
    IF backend_ = "sqlalchemy"
    THEN Comparison(users, base, IF null THEN "is_" ELSE "is_not", None)
    ELSE Keyword(base \o <<"isnull">>, Bool(null))

\* C14: in the SQLAlchemy and the Tortoise compiler a field <base>__isnull
\* compiles to IS NULL on <base> when its value is true and to IS NOT NULL
\* when its value is false, never to the complementary predicate.
C14_IsNullFollowsItsValue ==
    (/\ Compiled
     /\ backend \in {"sqlalchemy", "tortoise"}
     /\ IsSet(<<"name", "isnull">>))
        => /\ IsNullPredicate(backend, <<"name">>,
                              kwargs[<<"name", "isnull">>].b) \in Predicates
           /\ IsNullPredicate(backend, <<"name">>,
                              ~kwargs[<<"name", "isnull">>].b) \notin Predicates

\* C15: in the SQLAlchemy compiler <f>__not=v and <f>__neq=v both compile to
\* the is_not comparison of the attribute with v, not to "!=".
C15_NotAndNeqAreIsNot ==
    (Compiled /\ backend = "sqlalchemy")
        => /\ IsSet(<<"name", "not">>) =>
                  Comparison(users, <<"name">>, "is_not",
                             kwargs[<<"name", "not">>]) \in Predicates
           /\ IsSet(<<"name", "neq">>) =>
                  Comparison(users, <<"name">>, "is_not",
                             kwargs[<<"name", "neq">>]) \in Predicates

\* C15, amended: in the SQLAlchemy compiler <f>__not=v compiles to the is_not
\* comparison of the attribute with v, and <f>__neq=v to the inequality
\* (__ne__, "!=") with v; neither compiles to the other's comparison.
C15_NotIsIsNotAndNeqIsInequality ==
    (Compiled /\ backend = "sqlalchemy")
        => /\ IsSet(<<"name", "not">>) =>
                  Comparison(users, <<"name">>, "is_not",
                             kwargs[<<"name", "not">>]) \in Predicates
           /\ IsSet(<<"name", "neq">>) =>
                  Comparison(users, <<"name">>, "__ne__",
                             kwargs[<<"name", "neq">>]) \in Predicates
           /\ ~IsSet(<<"name", "not">>) =>
                  \A p \in Predicates : p.operator # "is_not" \/ p.value = None
           /\ ~IsSet(<<"name", "neq">>) =>
                  \A p \in Predicates : p.operator # "__ne__"

\* both operators were compiled in one query
C15_Witness ==
    /\ Compiled
    /\ backend = "sqlalchemy"
    /\ IsSet(<<"name", "not">>)
    /\ IsSet(<<"name", "neq">>)
    /\ Len(Returned.filters) = 2

\* the value handed to the like or ilike operator
LikeValue == kwargs[CHOOSE k \in DOMAIN kwargs : TRUE]

\* the str holds a %
HasPercent(value) == \E i \in 1..Len(value.s) : value.s[i] = "%"

\* C16: the like and ilike operators of the SQLAlchemy compiler compile a
\* value without % as "%" + value + "%" with a DeprecationWarning, and a
\* value with a % anywhere unchanged without a warning; transforming the
\* output again changes nothing and warns of nothing.
C16_LikeValueIsWrappedOnce ==
    (op = "like")
        => /\ ~result.outcome.raised
           /\ result.outcome.operator \in {"like", "ilike"}
           /\ ~HasPercent(LikeValue) =>
                  /\ result.outcome.value =
                         Str(<<"%">> \o LikeValue.s \o <<"%">>)
                  /\ result.outcome.warned
           /\ HasPercent(LikeValue) =>
                  /\ result.outcome.value = LikeValue
                  /\ ~result.outcome.warned
           /\ sqlalchemy_operator_transformer(result.outcome.operator,
                                               result.outcome.value) =
                  [result.outcome EXCEPT !.warned = FALSE]

\* a value whose only % is its last character was compiled unchanged
C16_Witness ==
    /\ op = "like"
    /\ LikeValue = Str(<<"a", "%">>)
    /\ result.outcome.value = Str(<<"a", "%">>)
    /\ ~result.outcome.warned

\* the operators a backend's compiler registers; the MongoEngine compiler
\* registers none, these are the ones its Filter documents
SupportedOperators(backend_) ==
    CASE backend_ \in {"sqlalchemy", "tortoise"} ->
             {"neq", "gt", "gte", "in", "isnull", "lt", "lte", "like",
              "ilike", "not", "not_in"}
      [] backend_ = "beanie" ->
             {"neq", "gt", "gte", "in", "isnull", "lt", "lte", "not", "ne",
              "not_in", "nin", "like", "ilike", "exists"}
      [] backend_ = "elasticsearch" ->
             {"neq", "gt", "gte", "lt", "lte", "in", "isnull", "not",
              "not_in", "nin"}
      [] backend_ = "mongoengine" ->
             {"in", "lte", "gt", "ne", "nin", "isnull", "lt", "gte"}

\* a field <base>__<operator> is set whose operator the backend does not
\* support
UnsupportedOperatorSet ==
    \E f \in DOMAIN kwargs :
        /\ IsSet(f)
        /\ Len(f) = 2
        /\ f[2] \notin SupportedOperators(backend)

\* construction succeeded and filter() raised an uncaught KeyError instead of
\* returning a query
RaisedKeyError ==
    /\ result.ok
    /\ result.exc = ""
    /\ result.outcome.raised
    /\ result.outcome.type = "KeyError"
    /\ Returned = None

NestedField == <<"address">>
NestedInst == kwargs[NestedField].inst

\* the nested filter field holds an instance with a set, non-None sub-field
NestedIsSet ==
    /\ IsSet(NestedField)
    /\ filtering_fields(NestedInst) # {}

\* the nested filter field holds an instance with no set, non-None sub-field
NestedIsEmpty ==
    /\ IsSet(NestedField)
    /\ DOMAIN model_dump(NestedInst, TRUE, FALSE, TRUE, FALSE) = {}

\* the predicates of the returned query that are scoped to the nested field:
\* comparisons on the related class behind a join (SQLAlchemy), keywords
\* under the relation's name (Tortoise), the predicates of the sub-query of
\* the membership keyword (MongoEngine), conditions and queries on a path
\* under the field (Beanie, Elasticsearch)
ScopedToNested ==
    CASE backend = "sqlalchemy" ->
             {i \in 1..Len(Returned.filters) :
                 /\ addresses \in {Returned.joins[j] :
                                      j \in 1..Len(Returned.joins)}
                 /\ Returned.filters[i].operator # "or_"
                 /\ Returned.filters[i].model = addresses}
      [] backend = "tortoise" ->
             {i \in 1..Len(Returned.filters) :
                 /\ "key" \in DOMAIN Returned.filters[i]
                 /\ Len(Returned.filters[i].key) > 1
                 /\ <<Returned.filters[i].key[1]>> = NestedField}
      [] backend = "mongoengine" ->
             UNION {1..Len(Returned.filters[i].value.filters) :
                      i \in {j \in 1..Len(Returned.filters) :
                                /\ "key" \in DOMAIN Returned.filters[j]
                                /\ Returned.filters[j].key =
                                       NestedField \o <<"in">>}}
      [] OTHER ->
             {i \in 1..Len(Returned.filters) :
                 /\ Len(Returned.filters[i].path) > 1
                 /\ <<Returned.filters[i].path[1]>> = NestedField}

\* C18: in every backend, when the nested filter field has a set, non-None
\* sub-field, the query filter() returns holds one predicate per such
\* sub-field, scoped to the nested field, next to one predicate for each of
\* the parent's own fields.
C18_NestedPredicatesAreApplied ==
    (Compiled /\ NestedIsSet)
        => /\ Cardinality(ScopedToNested) =
                  Cardinality(filtering_fields(NestedInst))
           /\ Len(Returned.filters) >=
                  Cardinality({f \in DOMAIN kwargs : IsSet(f)}) - 1
                      + (IF backend = "mongoengine" THEN 1
                         ELSE Cardinality(ScopedToNested))

\* the keywords of the call without the nested filter field
WithoutNested == [f \in DOMAIN kwargs \ {NestedField} |-> kwargs[f]]

\* C19: in the SQLAlchemy, MongoEngine and Beanie compilers, when the nested
\* filter field is present but holds no set, non-None sub-field, filter()
\* produces what it produces when the nested field is absent: no join and no
\* predicate is added for the nested field.
C19_EmptyNestedFilterIsSkipped ==
    (/\ op = "filter"
     /\ result.ok
     /\ backend \in {"sqlalchemy", "mongoengine", "beanie"}
     /\ NestedIsEmpty)
        => /\ result.outcome =
                  filter(backend,
                         construct(UserFilterNoOrderBy, WithoutNested).inst[1],
                         given_query)
           /\ ~result.outcome.raised =>
                  /\ ScopedToNested = {}
                  /\ backend = "sqlalchemy" =>
                         Returned.joins = given_query.joins
                  /\ Len(Returned.filters) =
                         Cardinality({f \in DOMAIN kwargs : IsSet(f)}) - 1

\* the SQLAlchemy compiler compiled a name next to a nested filter built
\* with city=None, and added the name's predicate only
C19_Witness ==
    /\ Compiled
    /\ backend = "sqlalchemy"
    /\ NestedIsEmpty
    /\ <<"city">> \in DOMAIN NestedInst.values
    /\ IsSet(<<"name">>)
    /\ Returned.joins = <<>>
    /\ Len(Returned.filters) = 1

\* the search field of the compiled class, its value and its target fields
SearchField == Filter.Constants.search_field_name
SearchValue == kwargs[SearchField]
SearchModelFields == Filter.Constants.search_model_fields[1]

\* the search field is set and search_model_fields is configured
SearchIsSet ==
    /\ Compiled
    /\ IsSet(SearchField)
    /\ Filter.Constants.search_model_fields # <<>>

\* the OR, over the search-target fields, of a case-insensitive "contains
\* value" match, as each compiler writes it
ContainsAny(backend_, value) ==
    CASE backend_ = "sqlalchemy" ->
             [operator |-> "or_",
              clauses |-> [f \in 1..Len(SearchModelFields) |->
                  [model |-> users, field |-> SearchModelFields[f],
                   operator |-> "ilike",
                   value |-> Str(<<"%">> \o value.s \o <<"%">>)]]]
      [] backend_ \in {"tortoise", "mongoengine"} ->
             [operator |-> "or_",
              clauses |-> [f \in 1..Len(SearchModelFields) |->
                  [key |-> SearchModelFields[f] \o <<"icontains">>,
                   value |-> value]]]
      [] backend_ = "beanie" ->
             [path |-> <<>>, operator |-> "$or",
              value |-> [f \in 1..Len(SearchModelFields) |->
                  [path |-> SearchModelFields[f], operator |-> "$regex.i",
                   value |-> Str(<<".*">> \o value.s \o <<".*">>),
                   fetch_links |-> FALSE, nesting_depth |-> 0]],
              fetch_links |-> FALSE, nesting_depth |-> 0]
      [] OTHER -> [operator |-> "or_", clauses |-> <<>>]

\* the multi_match bool_prefix query of the Elasticsearch compiler over the
\* search-target fields and their _2gram and _3gram sub-fields
PrefixMatchAny(value) ==
    [kind |-> "multi_match", path |-> <<>>, value |-> value,
     negated |-> FALSE, type |-> "bool_prefix",
     fields |-> [k \in 1..(3 * Len(SearchModelFields)) |->
         SearchModelFields[((k - 1) \div 3) + 1] \o
             (CASE (k - 1) % 3 = 0 -> <<>>
                [] (k - 1) % 3 = 1 -> <<"._2gram">>
                [] (k - 1) % 3 = 2 -> <<"._3gram">>)]]

\* the predicate is an equality on an attribute named after the search
\* field, as the compiler of the call writes equality
EqualityOnSearchField(predicate) ==
    CASE backend = "sqlalchemy" ->
             /\ predicate.operator = "__eq__"
             /\ predicate.field = SearchField
      [] backend \in {"tortoise", "mongoengine"} ->
             /\ "key" \in DOMAIN predicate
             /\ predicate.key = SearchField
      [] backend = "beanie" ->
             /\ predicate.operator = ""
             /\ predicate.path = SearchField
      [] OTHER ->
             /\ predicate.kind = "term"
             /\ predicate.path = SearchField

\* how many predicates of the returned query are the given one
Occurrences(predicate) ==
    Cardinality({i \in 1..Len(Returned.filters) :
                    /\ DOMAIN Returned.filters[i] = DOMAIN predicate
                    /\ "operator" \in DOMAIN predicate =>
                           Returned.filters[i].operator = predicate.operator
                    /\ Returned.filters[i] = predicate})

---------------------------------------------------------------------------
(* Vocabulary of the properties of validation through the wrapper. *)

\* the keyword fails by itself: the wrapper rejects the call that passes it
\* alone
FailsAlone(k) == ~FilterWrapper(Filter, by_alias, (k :> kwargs[k])).ok

\* the fields an error lists
Listed == {e.loc : e \in result.errors}

\* every value of the instance satisfies its field's annotation and, for the
\* ordering field, names attributes of the model without repetition
FullyValidated(inst) ==
    /\ \A f \in DOMAIN inst.cls.fields :
           ~validate_annotation(inst.cls.fields[f], inst.values[f]).raised
    /\ inst.cls.Constants.ordering_field_name \in DOMAIN inst.cls.fields =>
           ~validate_order_by(inst.cls,
                inst.values[inst.cls.Constants.ordering_field_name],
                inst.cls.Constants.ordering_field_name).raised

\* C21: a call of the FilterDepends wrapper of a declared class either
\* returns a fully validated instance or raises one RequestValidationError
\* that lists every field of the input that fails by itself; it never
\* returns an instance together with errors.
C21_ValidationIsAggregated ==
    (op = "FilterWrapper" /\ Filter \in DeclaredFilters)
        => IF result.ok
           THEN /\ result.errors = {}
                /\ Len(result.inst) = 1
                /\ FullyValidated(result.inst[1])
           ELSE /\ result.exc = "RequestValidationError"
                /\ result.inst = <<>>
                /\ result.errors # {}
                /\ \A k \in DOMAIN kwargs : FailsAlone(k) => k \in Listed

---------------------------------------------------------------------------
(* Vocabulary of the properties of repeated calls. *)

\* a call of filter() or sort() was made on an instance of the request
CalledOnInstance ==
    /\ op \in {"filter", "sort", "filter again", "sort again"}
    /\ result.ok

\* the instance as it was right after construction
Constructed == construct(Filter, kwargs).inst[1]

\* what the call made last yields on the instance as constructed
OnConstructed ==
    IF op \in {"filter", "filter again"}
    THEN filter(backend, Constructed, given_query)
    ELSE sort(backend, Constructed, given_query)

---------------------------------------------------------------------------
(* Vocabulary of the properties of field names. *)

\* a field whose name holds two or more separators is set
ManySeparatorsSet == \E f \in DOMAIN kwargs : IsSet(f) /\ Len(f) > 2

\* C23: filter() on a set field whose name holds two or more "__" resolves
\* the base name and the operator token at the first "__" and does not fail
\* while splitting the name; a name without "__" compiles to an equality.
C23_NameIsSplitAtFirstSeparator ==
    (op = "filter" /\ result.ok)
        => /\ ManySeparatorsSet =>
                  ~(result.outcome.raised /\ result.outcome.type = "ValueError")
           /\ (Compiled /\ backend = "sqlalchemy" /\ IsSet(<<"name">>)) =>
                  Comparison(users, <<"name">>, "__eq__", kwargs[<<"name">>])
                      \in Predicates

---------------------------------------------------------------------------
(* Vocabulary of the properties of the joins. *)

\* the joins filter() appended to the query it was given
AddedJoins ==
    SubSeq(Returned.joins, Len(given_query.joins) + 1, Len(Returned.joins))

\* the nested filter keyed by a relationship carries a filter condition
CarriesCondition(key) ==
    /\ IsSet(<<key>>)
    /\ filtering_fields(kwargs[<<key>>].inst) # {}

\* the joins of the relationships from relationship i on whose nested filter
\* carries a condition: the target, after the secondary table if there is one
RECURSIVE JoinsOfConditions(_, _)
JoinsOfConditions(relationships, i) ==
    IF i > Len(relationships) THEN <<>>
    ELSE (IF CarriesCondition(relationships[i].key)
          THEN IF relationships[i].secondary
               THEN <<secondary, relationships[i].class_>>
               ELSE <<relationships[i].class_>>
          ELSE <<>>) \o JoinsOfConditions(relationships, i + 1)

\* the nested filter has its ordering field set and nothing else
OnlyNestedOrderingSet ==
    /\ IsSet(NestedField)
    /\ NestedInst.fields_set = {NestedInst.cls.Constants.ordering_field_name}
    /\ filtering_fields(NestedInst) = {}

\* C24: one filter() call of the SQLAlchemy compiler adds the join of a
\* relationship once when the nested filter keyed by it carries a filter
\* condition and not at all otherwise: no join is added when only the
\* ordering field of the nested filter is set.
C24_JoinsFollowFilterConditions ==
    (Compiled /\ backend = "sqlalchemy" /\ Filter = UserFilterNoOrderBy)
        => AddedJoins = JoinsOfConditions(_get_relationships(users), 1)

\* C27: in the MongoEngine and Beanie compilers a nested filter on which only
\* the ordering field is set contributes no predicate: filter() returns what
\* it returns when the nested field is absent.
C27_NestedOrderingAddsNoPredicate ==
    (/\ op = "filter"
     /\ result.ok
     /\ backend \in {"mongoengine", "beanie"}
     /\ OnlyNestedOrderingSet)
        => result.outcome =
               filter(backend,
                      construct(UserFilterNoOrderBy, WithoutNested).inst[1],
                      given_query)

---------------------------------------------------------------------------
(* Vocabulary of the properties that tie validation to sorting. *)

\* the call produced an instance of a class that declares an ordering field,
\* and the instance holds ordering tokens
HoldsOrderingTokens ==
    /\ result.ok
    /\ result.inst # <<>>
    /\ Inst.cls.Constants.ordering_field_name \in DOMAIN Inst.cls.fields
    /\ ~Falsy(ordering_values(Inst).v)

\* the ordering tokens the instance holds
HeldTokens == Items(ordering_values(Inst).v)

---------------------------------------------------------------------------
(* Vocabulary of the properties of the Beanie conditions. *)

\* the fields that hold a nested filter, i.e. a link of the document
LinkFields == {"address", "link"}

\* the number of links a key path goes through
RECURSIVE LinksIn(_)
LinksIn(path) ==
    IF path = <<>> THEN 0
    ELSE (IF path[1] \in LinkFields THEN 1 ELSE 0) + LinksIn(Tail(path))

\* the key paths owed to an instance, in the order of its fields: the key of
\* a set scalar, and for a nested filter with a set sub-field the link, then
\* the paths of the nested filter under the link
RECURSIVE ExpectedPaths(_)
ExpectedPaths(inst) ==
    LET own == IF <<"name">> \in inst.fields_set THEN <<<<"name">>>> ELSE <<>>
        sub == IF <<"link">> \in inst.fields_set
               THEN inst.values[<<"link">>].inst
               ELSE inst
        under == IF <<"link">> \in inst.fields_set /\ sub.fields_set # {}
                 THEN LET paths == ExpectedPaths(sub)
                      IN <<<<"link">>>> \o
                         [j \in 1..Len(paths) |-> <<"link">> \o paths[j]]
                 ELSE <<>>
    IN own \o under

\* the Beanie compiler compiled a filter
BeanieCompiled ==
    /\ op \in {"filter", "filter links"}
    /\ backend = "beanie"
    /\ result.ok
    /\ ~result.outcome.raised

\* C28: the Beanie compiler emits for a nested filter with set sub-fields
\* one "is not None" condition on the link followed by the sub-conditions
\* under the link's key, all with fetch_links; every condition under a link
\* carries as nesting_depth the number of links of its key path, 1 for a
\* first-level nested field, and a top-level scalar condition carries no
\* options.
C28_NestedConditionsCarryTheirDepth ==
    BeanieCompiled
        => /\ \A i \in 1..Len(Returned.filters) :
                  LET c == Returned.filters[i]
                  IN IF LinksIn(c.path) = 0
                     THEN ~c.fetch_links /\ c.nesting_depth = 0
                     ELSE c.fetch_links /\ c.nesting_depth = LinksIn(c.path)
           /\ op = "filter links" =>
                  /\ [i \in 1..Len(Returned.filters) |->
                         Returned.filters[i].path] = ExpectedPaths(Inst)
                  /\ \A i \in 1..Len(Returned.filters) :
                         LET c == Returned.filters[i]
                         IN c.path[Len(c.path)] = "link" =>
                               c.operator = "$ne" /\ c.value = None

\* a filter with a sub-field set two links deep was compiled: the link, the
\* link under it and the sub-field, the last two at depth 2
C28_Witness ==
    /\ op = "filter links"
    /\ BeanieCompiled
    /\ Len(Returned.filters) = 3
    /\ Returned.filters[1].path = <<"link">>
    /\ Returned.filters[1].nesting_depth = 1
    /\ Returned.filters[2].path = <<"link", "link">>
    /\ Returned.filters[2].nesting_depth = 2
    /\ Returned.filters[3].path = <<"link", "link", "name">>
    /\ Returned.filters[3].nesting_depth = 2
    /\ Returned.filters[3].fetch_links

---------------------------------------------------------------------------
(* Vocabulary of the properties of the list operators. *)

\* the field of the request with a list operator and the string it carries
ListField == CHOOSE f \in DOMAIN kwargs : TRUE
SubmittedString == kwargs[ListField].s

\* the tokens of the submitted string
SubmittedTokens ==
    IF SubmittedString = <<>> THEN <<>> ELSE SplitComma(SubmittedString)

\* C26: in each backend a comma-joined string submitted for a field whose
\* operator is a list operator of the backend's operator table is split by
\* the backend's split_str, and the operator transformer receives the list
\* of its tokens, never the string.
C26_ListOperatorsReceiveTokens ==
    op = "filter list"
        => /\ result.ok
           /\ Inst.values[ListField] = List(SubmittedTokens)
           /\ ~result.outcome.raised
           /\ Len(Returned.filters) = 1
           /\ Returned.filters[1].value = List(SubmittedTokens)

---------------------------------------------------------------------------
(* Vocabulary of the properties of declared default lists. *)

\* the list fields of the class that declare a default list
DefaultListFields ==
    {f \in DOMAIN Filter.fields :
        /\ Filter.fields[f].annotation \in {"list", "list[int]"}
        /\ Filter.fields[f].default.t \in {"list", "list[int]"}}

\* C29: for a class with a list field that declares a default list, of str
\* or of another item type, FilterDepends builds the dependency; the filter it
\* returns holds the declared default when the wire does not carry the field
\* and the tokens of the comma-joined string when it does.
C29_DefaultListsSurviveTheWire ==
    op = "FilterDepends"
        => /\ result.exc # "TypeError"
           /\ result.ok =>
                  \A f \in DefaultListFields :
                      IF f \in DOMAIN kwargs
                      THEN Inst.values[f].l = SplitComma(kwargs[f].s)
                      ELSE Inst.values[f] = Filter.fields[f].default

---------------------------------------------------------------------------
(* Vocabulary of the properties of the derived classes. *)

\* the class with_prefix was called on as it is after the calls, the classes
\* the calls returned and the prefixes they were called with
FilterAfterCalls == result.value.classes.Filter
DerivedTypes == result.value.classes.derived
CalledPrefixes == result.value.calls

====
